---- MODULE Spec2Model ----
(***************************************************************************)
(* Model of the transfer orchestration layer of p2p-client                 *)
(* (src/p2p-client/src/files.rs, p2p.rs, lib.rs): the path-name codec,     *)
(* the collection builder (import), the collection exporter (export) and   *)
(* the P2P send session that wraps import.                                 *)
(*                                                                         *)
(* Text is modelled as a sequence of one-character strings, so that        *)
(* splitting, joining and pushing onto a path are computed the way the     *)
(* code computes them.  Paths follow std::path on Unix: '/' is the only    *)
(* separator and there are no drive prefixes.                              *)
(***************************************************************************)
EXTENDS Naturals, Sequences, FiniteSets, TLC

VARIABLES
    \* ---- codec harness: one call of encode / decode on drawn inputs
    cpath,      \* the input text: a path for encode, a name for decode
    croot,      \* the root handed to get_export_path
    crel,       \* must_be_relative
    cenc,       \* result of canonicalized_path_to_string
    cdec,       \* result of get_export_path
    cpc,        \* position of the harness
    \* ---- sender side: the file tree handed to import
    srcFiles,   \* the directory entries that exist below the sender's home
    unreadable, \* directories whose listing fails during the walk
    ipath,      \* the path handed to send_file
    \* ---- sender side: one P2P send session (send_file / send_internal / import)
    spc,        \* position of the session task
    endpoint,   \* "none", "bound" (Endpoint::bind done) or "accepting" (router spawned)
    stagingDir, \* the session's data_dir exists on disk
    store,      \* blobs held by the session's store
    sent,       \* status events accepted by the progress channel, in order
    rxClosed,   \* the receiving half of the progress channel has been dropped
    data_sources,   \* import: the (name, path) pairs in walk order
    names_and_tags, \* import: the (name, hash, size) triples staged so far
    done_files,     \* import: files staged so far
    done_size,      \* import: bytes staged so far
    item_size,      \* import: size reported for the file being staged
    sizeSeen,       \* the add stream of the current file has yielded Size
    others,         \* ignorable items the add stream of the current file has yielded
    stagingFailed,  \* an add stream yielded Error or ended before Done
    reported,       \* the sizes the add streams have yielded, in order
    iresult,        \* what import returned
    handle,         \* send_file returned a SendHandle
    \* ---- receiver side: one run of export
    collection, \* the Collection handed to export: (name, hash) pairs in order
    db,         \* the store export materializes from
    rfiles,     \* the receiver's files: resolved path -> content
    rdirs,      \* the receiver's directories: resolved paths
    rinit,      \* the receiver's files and directories when export started
    epc,        \* position of export
    ei,         \* the loop index i
    etarget,    \* target of the current entry
    rsent,      \* status events accepted by the receiver's progress channel
    erxClosed,  \* the receiving half of that channel has been dropped
    eresult,    \* what export returned: "none", "ok" or the error
    exportStarted,  \* the indices for which db.export_with_opts was called
    reach,          \* for each entry the loop reached: what the disk held then
    \* ---- receiver side: one receive session (receive_file / receive_logic)
    ticket_str, \* the ticket string handed to receive_file
    rpc,        \* position of the receive task
    rlogic,     \* what receive_logic returned: "none", "ok" or "err"
    tmpDir,     \* the temporary receive directory of this ticket exists on disk
    rlocal,     \* what the receive store holds of the ticket's content
    rstore,     \* the receive store: "closed", "open", "shutdown" or "dropped"
    rendpoint,  \* the receiver's endpoint: "none", "bound" or "dropped"
    removals,   \* calls of remove_dir_all on the temporary receive directory
    ticks,      \* Progress items the fetch stream has yielded
    ritem,      \* the last thing stream.next() gave: an item, "End" or "none"
    \* ---- sender side: transport variant, SendHandle and the bounded channel
    variant,    \* "p2p" (send_file) or "http" (start_http_send)
    server,     \* the HTTP server: "none", "bound", "serving" or "stopped"
    tunnel,     \* the ngrok tunnel: "none", "open" or "closed"
    shutdown,   \* the oneshot shutdown channel: "none", "armed" or "signalled"
    dropped,    \* Drop::drop of the SendHandle has run
    closeTask,  \* the task drop spawns to close the tunnel: "none", "spawned", "done"
    rmThread,   \* the thread drop spawns to remove data_dir: "none", "spawned", "done"
    capacity,   \* capacity of the progress channel the caller created
    queue,      \* status events buffered in the channel, oldest first
    delivered,  \* status events the consumer has taken from the channel, in order
    \* ---- sender side: the HTTP download handler
    hdb,        \* AppState.db: hash -> bytes of the blobs the store holds
    hname,      \* AppState.file_name
    hreq,       \* the {hash} path segment of the request being handled
    hhas,       \* what db.has(hash) returns for the request
    hresp,      \* the response
    \* ---- receiver side: several receive_file tasks on one runtime
    tasks,      \* the spawned receive_file tasks: position, ticket hash, progress
    data_dirs,  \* the temporary receive directories, by the hash that names them
    targets,    \* the export targets in the working directory: who wrote each
    \* ---- sender side: the temporary tag of the imported Collection
    temp_tag,   \* the TempTag import returned: "none", "held" or "released"
    \* ---- sender side: the window that started the send task
    send_handle_rx, \* MyApp.send_handle_rx is Some
    handle_chan,    \* the results buffered in the channel of handle_tx
    send_handle,    \* MyApp.send_handle is Some
    active_sends,   \* MyApp.active_sends: the tickets of the listed transfers
    hpc,            \* the spawned task has sent handle_result: "wait" or "sent"
    \* ---- sender side: several send sessions of one process
    sends,      \* the send sessions: position, staging directory, SendHandle, tasks
    temp_dirs,  \* the staging directories that exist under temp_dir(), by suffix
    \* ---- receiver side: the sizes a peer reports and the totals made of them
    psizes,     \* the sizes get_hash_seq_and_sizes returned, the manifest's first
    pbuild,     \* overflow checks of the build: "debug" (on) or "release" (off)
    plocal,     \* local.local_bytes()
    poffset,    \* the offset of the last Progress item
    ppc,        \* position in receive_logic: "idle", "sizes", "fetch", "done", "panicked"
    pevents     \* the Connected and Downloading events sent

codecVars == <<cpath, croot, crel, cenc, cdec, cpc>>

treeVars == <<srcFiles, unreadable, ipath>>

sessionVars == <<spc, endpoint, stagingDir, store, sent, rxClosed, handle>>

importVars == <<data_sources, names_and_tags, done_files, done_size, item_size,
                sizeSeen, others, stagingFailed, reported, iresult>>

exportVars == <<collection, db, rfiles, rdirs, rinit, epc, ei, etarget, rsent, erxClosed,
                eresult, exportStarted, reach>>

recvVars == <<ticket_str, rpc, rlogic, tmpDir, rlocal, rstore, rendpoint, removals, ticks,
              ritem>>

handleVars == <<variant, server, tunnel, shutdown, dropped, closeTask, rmThread>>

chanVars == <<capacity, queue, delivered>>

lifeVars == <<handleVars, chanVars>>

dlVars == <<hdb, hname, hreq, hhas, hresp>>

taskVars == <<tasks, data_dirs, targets>>

guiVars == <<send_handle_rx, handle_chan, send_handle, active_sends, hpc>>

sendsVars == <<sends, temp_dirs>>

sizeVars == <<psizes, pbuild, plocal, poffset, ppc, pevents>>

extVars == <<guiVars, sendsVars, sizeVars>>

vars == <<codecVars, treeVars, sessionVars, importVars, exportVars, recvVars, lifeVars,
          dlVars, taskVars, temp_tag, extVars>>

-----------------------------------------------------------------------------
(* Bounds *)

\* longest input text drawn for the codec
MaxLen == 5

\* most ignorable items (copy and outboard progress) one add stream yields
MaxOther == 1

\* most entries of a Collection received from a peer
MaxEntries == 2

-----------------------------------------------------------------------------
(* Text *)

\* the alphabet of the drawn codec inputs: a letter, the dot, both slashes
Chars == {"a", ".", "/", "\\"}

Strings(n) == UNION {[1..k -> Chars] : k \in 0..n}

Contains(s, c) == \E i \in 1..Len(s) : s[i] = c

\* str::split(sep): the pieces between separators; "" splits into one empty piece
RECURSIVE Split(_, _)
Split(s, sep) ==
    IF Contains(s, sep)
    THEN LET i == CHOOSE k \in 1..Len(s) :
                      s[k] = sep /\ \A j \in 1..(k - 1) : s[j] # sep
         IN  <<SubSeq(s, 1, i - 1)>> \o Split(SubSeq(s, i + 1, Len(s)), sep)
    ELSE <<s>>

\* [&str]::join(sep)
RECURSIVE Join(_, _)
Join(parts, sep) ==
    IF Len(parts) = 0 THEN <<>>
    ELSE IF Len(parts) = 1 THEN parts[1]
    ELSE parts[1] \o <<sep>> \o Join(Tail(parts), sep)

-----------------------------------------------------------------------------
(* std::path on Unix *)

RootDir == [kind |-> "RootDir", part |-> <<>>]
CurDir == [kind |-> "CurDir", part |-> <<>>]
ParentDir == [kind |-> "ParentDir", part |-> <<>>]
Normal(x) == [kind |-> "Normal", part |-> x]

HasRoot(p) == Len(p) > 0 /\ p[1] = "/"

\* the components after the first position: empty pieces and "." are
\* normalized away, ".." is kept as ParentDir
RECURSIVE TailComponents(_)
TailComponents(raw) ==
    IF Len(raw) = 0 THEN <<>>
    ELSE LET x == raw[1]
             rest == TailComponents(Tail(raw))
         IN  IF x = <<>> \/ x = <<".">> THEN rest
             ELSE IF x = <<".", ".">> THEN <<ParentDir>> \o rest
             ELSE <<Normal(x)>> \o rest

\* Path::components(): RootDir for a leading '/', CurDir only for a "." that
\* starts a relative path, then the normalized rest
Components(p) ==
    LET raw == Split(p, "/")
        lead == IF HasRoot(p) THEN <<RootDir>>
                ELSE IF raw[1] = <<".">> THEN <<CurDir>>
                ELSE <<>>
    IN  lead \o TailComponents(raw)

\* PathBuf::push(part): an absolute part replaces the path, otherwise the part
\* is appended after a separator (none is added to an empty path or after '/')
Push(p, part) ==
    IF HasRoot(part) THEN part
    ELSE IF Len(p) > 0 /\ p[Len(p)] # "/" THEN p \o <<"/">> \o part
    ELSE p \o part

\* PathBuf == PathBuf compares the components
PathEq(p, q) == Components(p) = Components(q)

-----------------------------------------------------------------------------
(* PathNameCodec *)

Ok(v) == [ok |-> TRUE, val |-> v]
Err(e) == [ok |-> FALSE, val |-> e]

RECURSIVE PushParts(_, _)
PushParts(path, parts) ==
    IF Len(parts) = 0 THEN Ok(path)
    ELSE LET part == parts[1]
         IN  IF Contains(part, "\\") \/ part = <<".", ".">> \/ part = <<".">>
             THEN Err("invalid path component")
             ELSE PushParts(Push(path, part), Tail(parts))

\* a decode that forgets the '..' and '.' tests
RECURSIVE PushPartsNoDots(_, _)
PushPartsNoDots(path, parts) ==
    IF Len(parts) = 0 THEN Ok(path)
    ELSE LET part == parts[1]
         IN  IF Contains(part, "\\")
             THEN Err("invalid path component")
             ELSE PushPartsNoDots(Push(path, part), Tail(parts))

get_export_path_nodots(root, name) == PushPartsNoDots(root, Split(name, "/"))

\* get_export_path: every '/'-separated part is tested, then pushed onto root
get_export_path(root, name) == PushParts(root, Split(name, "/"))

RECURSIVE EncodeParts(_, _)
EncodeParts(comps, must_be_relative) ==
    IF Len(comps) = 0 THEN Ok(<<>>)
    ELSE LET c == comps[1]
             rest == EncodeParts(Tail(comps), must_be_relative)
         IN  IF c.kind = "Normal"
             THEN IF Contains(c.part, "/") THEN Err("Invalid path component")
                  ELSE IF rest.ok THEN Ok(<<c.part>> \o rest.val) ELSE rest
             ELSE IF c.kind = "RootDir" /\ ~must_be_relative THEN rest
             ELSE Err("Invalid path component")

\* an encode that joins the parts without the separator
encode_nosep(path, must_be_relative) ==
    IF Contains(path, "\\") THEN Err("Path must not contain backslashes")
    ELSE LET r == EncodeParts(Components(path), must_be_relative)
         IN  IF r.ok THEN Ok(Join(r.val, ".")) ELSE r

\* an encode that lets every non-normal component through
encode_lenient(path, must_be_relative) ==
    LET r == EncodeParts(SelectSeq(Components(path), LAMBDA c : c.kind = "Normal"),
                         must_be_relative)
    IN  IF r.ok THEN Ok(Join(r.val, "/")) ELSE r

\* canonicalized_path_to_string: no backslash anywhere, only Normal
\* components (a RootDir is let through when must_be_relative is false),
\* joined with '/'
canonicalized_path_to_string(path, must_be_relative) ==
    IF Contains(path, "\\") THEN Err("Path must not contain backslashes")
    ELSE LET r == EncodeParts(Components(path), must_be_relative)
         IN  IF r.ok THEN Ok(Join(r.val, "/")) ELSE r

-----------------------------------------------------------------------------
(* Ordering of names: String::cmp compares byte by byte *)

Code(c) ==
    CASE c = "." -> 46
      [] c = "/" -> 47
      [] c = "\\" -> 92
      [] c = "a" -> 97
      [] c = "b" -> 98
      [] c = "d" -> 100
      [] c = "e" -> 101
      [] c = "h" -> 104
      [] c = "l" -> 108
      [] c = "s" -> 115
      [] c = "t" -> 116
      [] c = "u" -> 117
      [] c = "w" -> 119
      [] c = "x" -> 120
      [] c = "y" -> 121
      [] c = "z" -> 122

RECURSIVE StrLess(_, _)
StrLess(a, b) ==
    IF Len(b) = 0 THEN FALSE
    ELSE IF Len(a) = 0 THEN TRUE
    ELSE IF Code(a[1]) < Code(b[1]) THEN TRUE
    ELSE IF Code(a[1]) > Code(b[1]) THEN FALSE
    ELSE StrLess(Tail(a), Tail(b))

StrLeq(a, b) == a = b \/ StrLess(a, b)

\* put e after the elements that are not greater than it (the sort is stable)
RECURSIVE InsertByName(_, _)
InsertByName(sorted, e) ==
    IF Len(sorted) = 0 THEN <<e>>
    ELSE IF StrLeq(sorted[1].name, e.name)
         THEN <<sorted[1]>> \o InsertByName(Tail(sorted), e)
         ELSE <<e>> \o sorted

RECURSIVE SortFrom(_, _)
SortFrom(sorted, rest) ==
    IF Len(rest) = 0 THEN sorted
    ELSE SortFrom(InsertByName(sorted, rest[1]), Tail(rest))

\* a build of import that leaves the triples in staging order
sort_by_name_skipped(triples) == triples

\* names_and_tags.sort_by(|(a, _, _), (b, _, _)| a.cmp(b))
sort_by_name(triples) == SortFrom(<<>>, triples)

RECURSIVE SumSizes(_)
SumSizes(triples) ==
    IF Len(triples) = 0 THEN 0 ELSE triples[1].size + SumSizes(Tail(triples))

-----------------------------------------------------------------------------
(* Content store: a blob is addressed by the hash of its bytes *)

Hash(content) == <<"blake3", content>>

ContentOf(hash) == hash[2]

-----------------------------------------------------------------------------
(* The sender's file tree *)

AbsPath(parts) == <<"/">> \o Join(parts, "/")

nH == <<"h">>
nD == <<"d">>
nSub == <<"s", "u", "b">>
nX == <<"x", ".", "t", "x", "t">>
nY == <<"y", ".", "t", "x", "t">>
nZ == <<"z">>
nA == <<"a", ".", "t", "x", "t">>
nL == <<"l">>
nBs == <<"b", "\\", "e">>

DirD == AbsPath(<<nH, nD>>)
DirSub == AbsPath(<<nH, nD, nSub>>)

FileX == [path |-> AbsPath(<<nH, nD, nX>>), kind |-> "file", content |-> <<1>>]
FileY == [path |-> AbsPath(<<nH, nD, nSub, nY>>), kind |-> "file", content |-> <<2, 2>>]
FileZ == [path |-> AbsPath(<<nH, nD, nSub, nZ>>), kind |-> "file", content |-> <<1>>]
FileA == [path |-> AbsPath(<<nH, nA>>), kind |-> "file", content |-> <<>>]
LinkL == [path |-> AbsPath(<<nH, nD, nL>>), kind |-> "symlink", content |-> <<>>]
FileBs == [path |-> AbsPath(<<nH, nD, nBs>>), kind |-> "file", content |-> <<3>>]

Candidates == {FileX, FileY, FileZ, FileA, LinkL, FileBs}

\* the directories of the tree: they exist in every drawn tree
SrcDirs == {<<"/">>, AbsPath(<<nH>>), DirD, DirSub}

ImportPaths == {DirD, DirSub, FileA.path, <<"/">>}

\* p is dir or lies below it
Under(p, dir) ==
    \/ p = dir
    \/ dir = <<"/">> /\ HasRoot(p)
    \/ /\ Len(p) > Len(dir)
       /\ SubSeq(p, 1, Len(dir)) = dir
       /\ p[Len(dir) + 1] = "/"

\* Path::parent(): the path without its last component, None for the root
HasParent(p) == p # <<"/">> /\ Len(p) > 0

Parent(p) ==
    LET i == CHOOSE k \in 1..Len(p) :
                 p[k] = "/" /\ \A j \in (k + 1)..Len(p) : p[j] # "/"
    IN  IF i = 1 THEN <<"/">> ELSE SubSeq(p, 1, i - 1)

\* Path::strip_prefix(base) of a path below base
StripPrefix(p, base) ==
    IF base = <<"/">> THEN SubSeq(p, 2, Len(p))
    ELSE SubSeq(p, Len(base) + 2, Len(p))

PathExists(p) == p \in SrcDirs \/ \E f \in srcFiles : f.path = p

-----------------------------------------------------------------------------
(* WalkDir: depth first, in directory order, which is not sorted *)

\* the entries the walk yields Ok: those below path that are not inside a
\* directory whose listing fails (filter_map(Result::ok) drops the failure)
WalkedEntries(path) ==
    {f \in srcFiles :
        /\ Under(f.path, path)
        /\ ~\E u \in unreadable : Under(f.path, u)}

\* .filter(|e| e.file_type().is_file())
WalkedFiles(path) == {f \in WalkedEntries(path) : f.kind = "file"}

Perms(S) ==
    {o \in [1..Cardinality(S) -> S] : \A i, j \in 1..Cardinality(S) : o[i] = o[j] => i = j}

\* depth first: the files of a subdirectory come out next to each other
WalkOrders(path) ==
    {o \in Perms(WalkedFiles(path)) :
        \A dir \in SrcDirs :
            (Under(dir, path) /\ dir # path) =>
                \A i, j, k \in 1..Len(o) :
                    (i < j /\ j < k /\ Under(o[i].path, dir) /\ Under(o[k].path, dir))
                        => Under(o[j].path, dir)}

\* the .map closure: the name of one walked file, relative to root
SourceOf(f, root) ==
    LET name == canonicalized_path_to_string(StripPrefix(f.path, root), TRUE)
    IN  IF name.ok THEN Ok([name |-> name.val, file |-> f]) ELSE name

-----------------------------------------------------------------------------
(* Status events *)

EvConnecting == [type |-> "Connecting"]

\* an event that counts the file about to be staged as done
EvImporting_counts_current(tf, df, ts, ds) ==
    [type |-> "Importing", total_files |-> tf, done_files |-> df + 1,
     total_size |-> ts, done_size |-> ds]

EvImporting(tf, df, ts, ds) ==
    [type |-> "Importing", total_files |-> tf, done_files |-> df,
     total_size |-> ts, done_size |-> ds]

EvReadyToSend(hash) == [type |-> "ReadyToSend", ticket |-> hash]

EvError == [type |-> "Error"]

-----------------------------------------------------------------------------
(* One P2P send session: send_file -> send_internal -> import *)

NoImport == [ok |-> FALSE, val |-> "none"]

SenderIdle ==
    /\ srcFiles = {}
    /\ unreadable = {}
    /\ ipath = <<"/">>
    /\ spc = "idle"
    /\ endpoint = "none"
    /\ stagingDir = FALSE
    /\ store = [blobs |-> {}, collections |-> {}]
    /\ sent = <<>>
    /\ rxClosed = FALSE
    /\ handle = FALSE
    /\ data_sources = <<>>
    /\ names_and_tags = <<>>
    /\ done_files = 0
    /\ done_size = 0
    /\ item_size = 0
    /\ sizeSeen = FALSE
    /\ others = 0
    /\ stagingFailed = FALSE
    /\ reported = <<>>
    /\ iresult = NoImport
    /\ temp_tag = "none"

ExportIdle ==
    /\ collection = <<>>
    /\ db = [blobs |-> {}, collections |-> {}]
    /\ rfiles = {}
    /\ rdirs = {}
    /\ rinit = [files |-> {}, dirs |-> {}]
    /\ epc = "idle"
    /\ ei = 0
    /\ etarget = <<>>
    /\ rsent = <<>>
    /\ erxClosed = FALSE
    /\ eresult = "none"
    /\ exportStarted = {}
    /\ reach = <<>>

\* BlobTicket::from_str: a ticket string is a kind tag and a content hash
NoTicket == <<"none">>

RecvIdle ==
    /\ ticket_str = NoTicket
    /\ rpc = "idle"
    /\ rlogic = "none"
    /\ tmpDir = FALSE
    /\ rlocal = "empty"
    /\ rstore = "closed"
    /\ rendpoint = "none"
    /\ removals = 0
    /\ ticks = 0
    /\ ritem = "none"

\* mpsc::channel(10): the capacity the user interface gives the progress
\* channel of a send session
GuiCapacity == 10

LifeIdle ==
    /\ variant = "p2p"
    /\ server = "none"
    /\ tunnel = "none"
    /\ shutdown = "none"
    /\ dropped = FALSE
    /\ closeTask = "none"
    /\ rmThread = "none"
    /\ capacity = GuiCapacity
    /\ queue = <<>>
    /\ delivered = <<>>

NoRequest == <<>>

NoResponse == [status |-> 0]

DlIdle ==
    /\ hdb = <<>>
    /\ hname = <<>>
    /\ hreq = NoRequest
    /\ hhas = "none"
    /\ hresp = NoResponse

\* receive_file tasks the user interface has spawned on the runtime
MaxTasks == 2

Tasks == 1..MaxTasks

\* the content hashes the tickets carry
ContentHashes == {"h1", "h2"}

\* the names of the entries of the two collections
TargetNames == {"a", "b"}

NoTask == [pc |-> "idle", hash |-> "none", fetched |-> 0, i |-> 0, result |-> "none",
           after |-> {}]

NoDir == [exists |-> FALSE, bytes |-> 0, open |-> {}]

\* no receive_file task has been spawned
\* the window right after a Send button was clicked: both channels made, the
\* task spawned, nothing received yet
GuiIdle ==
    /\ send_handle_rx = TRUE
    /\ handle_chan = <<>>
    /\ send_handle = FALSE
    /\ active_sends = <<>>
    /\ hpc = "wait"

\* most send sessions one process runs at a time
MaxSends == 2

Sends == 1..MaxSends

NoSend == [pc |-> "idle", variant |-> "none", dir |-> 0, handle |-> "none",
           shutdown |-> "none", task |-> "none", tunnel |-> "none",
           closeTask |-> "none", rmThread |-> "none"]

SendsIdle ==
    /\ sends = [s \in Sends |-> NoSend]
    /\ temp_dirs = {}

SizesIdle ==
    /\ psizes = <<>>
    /\ pbuild = "release"
    /\ plocal = 0
    /\ poffset = 0
    /\ ppc = "idle"
    /\ pevents = <<>>

ExtIdle == GuiIdle /\ SendsIdle /\ SizesIdle

TasksIdle ==
    /\ tasks = [t \in Tasks |-> NoTask]
    /\ data_dirs = [h \in ContentHashes |-> NoDir]
    /\ targets = [n \in TargetNames |-> <<>>]

InitSend ==
    /\ srcFiles \in SUBSET Candidates
    /\ unreadable \in {{}, {DirSub}, {DirD}}
    /\ ipath \in ImportPaths
    /\ spc = "start"
    /\ endpoint = "none"
    /\ stagingDir = FALSE
    /\ store = [blobs |-> {}, collections |-> {}]
    /\ sent = <<>>
    /\ rxClosed = FALSE
    /\ handle = FALSE
    /\ data_sources = <<>>
    /\ names_and_tags = <<>>
    /\ done_files = 0
    /\ done_size = 0
    /\ item_size = 0
    /\ sizeSeen = FALSE
    /\ others = 0
    /\ stagingFailed = FALSE
    /\ reported = <<>>
    /\ iresult = NoImport
    /\ temp_tag = "none"

Running == spc \notin {"idle", "returned", "failed"}

\* the user interface drops the receiver of the progress channel
CloseReceiver ==
    /\ Running
    /\ ~rxClosed
    /\ rxClosed' = TRUE
    /\ UNCHANGED <<codecVars, exportVars, treeVars, recvVars, lifeVars, dlVars, taskVars, extVars, temp_tag, spc, endpoint, stagingDir, store, sent, handle,
                   importVars>>

\* progress.send(ev).await?: the event is queued, or the send fails because
\* the receiver is gone and the caller returns the error
SendOrFail_unbounded(ev, next) ==
    IF rxClosed
    THEN spc' = "err" /\ sent' = sent /\ queue' = queue
    ELSE spc' = next /\ sent' = Append(sent, ev) /\ queue' = Append(queue, ev)

SendOrFail(ev, next) ==
    IF rxClosed
    THEN spc' = "err" /\ sent' = sent /\ queue' = queue
    ELSE /\ Len(queue) < capacity
         /\ spc' = next
         /\ sent' = Append(sent, ev)
         /\ queue' = Append(queue, ev)

\* a session that goes on without announcing itself
SendConnecting_silent ==
    /\ spc = "start"
    /\ spc' = IF variant = "p2p" THEN "bind" ELSE "mkdir"
    /\ UNCHANGED <<codecVars, exportVars, treeVars, recvVars, lifeVars, dlVars, taskVars, extVars, temp_tag, endpoint,
                   stagingDir, store, sent, rxClosed, handle, importVars>>

\* send_internal: progress.send(Connecting)
SendConnecting ==
    /\ spc = "start"
    /\ SendOrFail(EvConnecting, IF variant = "p2p" THEN "bind" ELSE "mkdir")
    /\ UNCHANGED <<codecVars, exportVars, treeVars, recvVars, handleVars, capacity, delivered,
                   dlVars, taskVars, extVars, temp_tag, endpoint, stagingDir, store, rxClosed, handle, importVars>>

\* send_internal: Endpoint::builder()...bind().await?
BindEndpoint ==
    /\ spc = "bind"
    /\ \/ endpoint' = "bound" /\ spc' = "mkdir"
       \/ endpoint' = endpoint /\ spc' = "err"
    /\ UNCHANGED <<codecVars, exportVars, treeVars, recvVars, lifeVars, dlVars, taskVars, extVars, temp_tag, stagingDir, store, sent, rxClosed, handle,
                   importVars>>

\* send_internal: create_dir_all(&data_dir).await?
CreateDataDir ==
    /\ spc = "mkdir"
    /\ \/ stagingDir' = TRUE /\ spc' = "load"
       \/ stagingDir' = stagingDir /\ spc' = "err"
    /\ UNCHANGED <<codecVars, exportVars, treeVars, recvVars, lifeVars, dlVars, taskVars, extVars, temp_tag, endpoint, store, sent, rxClosed, handle,
                   importVars>>

\* send_internal: FsStore::load(&data_dir).await?
LoadStore ==
    /\ spc = "load"
    /\ spc' \in {"walk", "err"}
    /\ UNCHANGED <<codecVars, exportVars, treeVars, recvVars, lifeVars, dlVars, taskVars, extVars, temp_tag, endpoint, stagingDir, store, sent, rxClosed,
                   handle, importVars>>

-----------------------------------------------------------------------------
(* import (files.rs), running inside the session *)

total_files == Len(data_sources)

RECURSIVE SumMetadata(_)
SumMetadata(srcs) ==
    IF Len(srcs) = 0 THEN 0
    ELSE Len(srcs[1].file.content) + SumMetadata(Tail(srcs))

\* the pre-pass over p.metadata().len()
total_size == SumMetadata(data_sources)

\* the hash of the blob Collection::store writes; it is what a ticket carries
CollectionHash(c) == <<"hashseq", c>>

\* a store holds raw blobs and collection blobs, each under its hash
EmptyStore == [blobs |-> {}, collections |-> {}]

AddBlob(st, hash) == [st EXCEPT !.blobs = @ \cup {hash}]

AddCollection(st, hash) == [st EXCEPT !.collections = @ \cup {hash}]

\* canonicalize, parent, the walk and the names: everything before the first
\* await of import
ImportWalk ==
    /\ spc = "walk"
    /\ IF ~PathExists(ipath) \/ ~HasParent(ipath)
       THEN /\ spc' = "err"
            /\ iresult' = Err("path")
            /\ data_sources' = data_sources
       ELSE \E o \in WalkOrders(ipath) :
              LET srcs == [i \in 1..Len(o) |-> SourceOf(o[i], Parent(ipath))]
              IN  IF \E i \in 1..Len(o) : ~srcs[i].ok
                  THEN /\ spc' = "err"
                       /\ iresult' = Err("name")
                       /\ data_sources' = data_sources
                  ELSE /\ data_sources' = [i \in 1..Len(o) |-> srcs[i].val]
                       /\ spc' = IF Len(o) = 0 THEN "store_collection" ELSE "emit"
                       /\ iresult' = iresult
    /\ UNCHANGED <<codecVars, exportVars, treeVars, recvVars, lifeVars, dlVars, taskVars, extVars, temp_tag, endpoint, stagingDir, store, sent, rxClosed,
                   handle, names_and_tags, done_files, done_size, item_size, sizeSeen,
                   others, stagingFailed, reported>>

\* progress.send(Importing{..}).await? at the head of the loop body, then the
\* add stream of the file is opened with item_size = 0
ImportEmit ==
    /\ spc = "emit"
    /\ SendOrFail(EvImporting(total_files, done_files, total_size, done_size), "stream")
    /\ iresult' = IF rxClosed THEN Err("send") ELSE iresult
    /\ item_size' = 0
    /\ sizeSeen' = FALSE
    /\ others' = 0
    /\ UNCHANGED <<codecVars, exportVars, treeVars, recvVars, handleVars, capacity, delivered,
                   dlVars, taskVars, extVars, temp_tag, endpoint, stagingDir, store, rxClosed, handle,
                   data_sources, names_and_tags, done_files, done_size, stagingFailed,
                   reported>>

\* what the add stream can yield next; "End" is the stream running dry
AddItems == {"Size", "Other", "Done", "Error", "End"}

\* a match that lets an Error item fall into the catch-all arm
AddItemVerdict_ErrorIgnored(item) ==
    CASE item = "Size" -> "size"
      [] item = "Done" -> "break"
      [] item = "End" -> "bail"
      [] OTHER -> "skip"

\* the match on stream.next().await.context(..)?
AddItemVerdict(item) ==
    CASE item = "Size" -> "size"
      [] item = "Done" -> "break"
      [] item = "Error" -> "bail"
      [] item = "End" -> "bail"
      [] OTHER -> "skip"

\* one turn of the inner loop: the store yields the next item of the add
\* stream of the current file
ImportStreamItem ==
    /\ spc = "stream"
    /\ \E item \in AddItems :
        LET cur == data_sources[done_files + 1]
            verdict == AddItemVerdict(item)
        IN  /\ item = "Size" => ~sizeSeen
            /\ item = "Other" => others < MaxOther
            /\ stagingFailed' = (stagingFailed \/ item \in {"Error", "End"})
            /\ sizeSeen' = (sizeSeen \/ item = "Size")
            /\ reported' = IF item = "Size"
                           THEN Append(reported, Len(cur.file.content)) ELSE reported
            /\ others' = IF item = "Other" THEN others + 1 ELSE others
            /\ item_size' = IF verdict = "size" THEN Len(cur.file.content) ELSE item_size
            /\ IF verdict = "break"
               THEN /\ store' = AddBlob(store, Hash(cur.file.content))
                    /\ done_files' = done_files + 1
                    /\ done_size' = done_size + item_size
                    /\ names_and_tags' = Append(names_and_tags,
                            [name |-> cur.name, hash |-> Hash(cur.file.content),
                             size |-> item_size])
                    /\ spc' = IF done_files + 1 = total_files
                              THEN "store_collection" ELSE "emit"
                    /\ iresult' = iresult
               ELSE /\ UNCHANGED <<store, done_files, done_size, names_and_tags>>
                    /\ spc' = IF verdict = "bail" THEN "err" ELSE spc
                    /\ iresult' = IF verdict = "bail" THEN Err("staging") ELSE iresult
    /\ UNCHANGED <<codecVars, exportVars, treeVars, recvVars, lifeVars, dlVars, taskVars, extVars, temp_tag, endpoint, stagingDir, sent, rxClosed, handle,
                   data_sources>>

\* the Collection built from the sorted triples
CollectionOf(triples) ==
    [i \in 1..Len(triples) |-> [name |-> triples[i].name, hash |-> triples[i].hash]]

\* after the loop: sort, sum, build the Collection and store it as a blob
ImportStoreCollection ==
    /\ spc = "store_collection"
    /\ LET sorted == sort_by_name(names_and_tags)
           size == SumSizes(sorted)
           built == CollectionOf(sorted)
       IN  \/ /\ store' = AddCollection(store, CollectionHash(built))
              /\ iresult' = Ok([hash |-> CollectionHash(built), size |-> size,
                                collection |-> built])
              /\ spc' = IF variant = "p2p" THEN "router" ELSE "single"
              /\ temp_tag' = "held"
           \/ /\ store' = store
              /\ iresult' = Err("store")
              /\ spc' = "err"
              /\ temp_tag' = temp_tag
    /\ UNCHANGED <<codecVars, exportVars, treeVars, recvVars, lifeVars, dlVars, taskVars, extVars, endpoint, stagingDir, sent, rxClosed, handle,
                   data_sources, names_and_tags, done_files, done_size, item_size,
                   sizeSeen, others, stagingFailed, reported>>

-----------------------------------------------------------------------------
(* send_internal after import, and the send_file wrapper *)

\* a session that goes on to the online wait without a router
SpawnRouter_skipped ==
    /\ spc = "router"
    /\ endpoint' = endpoint
    /\ spc' = "online"
    /\ UNCHANGED <<codecVars, exportVars, treeVars, recvVars, lifeVars, dlVars, taskVars, extVars, temp_tag, stagingDir, store, sent, rxClosed, handle,
                   importVars>>

\* Router::builder(endpoint).accept(BlobsAlpn, blobs).spawn()
SpawnRouter ==
    /\ spc = "router"
    /\ endpoint' = "accepting"
    /\ spc' = "online"
    /\ UNCHANGED <<codecVars, exportVars, treeVars, recvVars, lifeVars, dlVars, taskVars, extVars, temp_tag, stagingDir, store, sent, rxClosed, handle,
                   importVars>>

\* timeout(10 s, ep.online()).await?: online in time, or the timeout elapses
AwaitOnline ==
    /\ spc = "online"
    /\ spc' \in {"ready", "err"}
    /\ UNCHANGED <<codecVars, exportVars, treeVars, recvVars, lifeVars, dlVars, taskVars, extVars, temp_tag, endpoint, stagingDir, store, sent, rxClosed,
                   handle, importVars>>

\* the ticket of the P2P variant carries the hash of the collection, the
\* link of the HTTP variant the hash of the one file
Ticket ==
    IF variant = "p2p" THEN [kind |-> "blob", hash |-> iresult.val.hash]
    ELSE [kind |-> "http", hash |-> iresult.val.collection[1].hash]

\* progress.send(ReadyToSend{ticket}).await?
SendReady ==
    /\ spc = "ready"
    /\ SendOrFail(EvReadyToSend(Ticket), "spawn")
    /\ UNCHANGED <<codecVars, exportVars, treeVars, recvVars, handleVars, capacity, delivered,
                   dlVars, taskVars, extVars, temp_tag, endpoint, stagingDir, store, rxClosed, handle, importVars>>

\* a session that can still fail after it has announced ReadyToSend
ReturnHandle_may_fail ==
    /\ spc = "spawn"
    /\ \/ /\ handle' = TRUE /\ shutdown' = "armed" /\ spc' = "returned"
          /\ temp_tag' = IF variant = "http" THEN "released" ELSE temp_tag
       \/ /\ handle' = handle /\ shutdown' = shutdown /\ spc' = "err"
          /\ temp_tag' = temp_tag
    /\ UNCHANGED <<codecVars, exportVars, treeVars, recvVars, variant, server, tunnel, dropped,
                   closeTask, rmThread, chanVars, dlVars, taskVars, extVars, endpoint, stagingDir, store, sent,
                   rxClosed, importVars>>

\* Ok(SendHandle {..}) is returned; the P2P variant first makes the shutdown
\* channel and spawns the task that waits on it and takes temp_tag with it
\* (the HTTP variant did so when it spawned the server, and its _temp_tag is
\* a local that the return drops)
ReturnHandle ==
    /\ spc = "spawn"
    /\ handle' = TRUE
    /\ shutdown' = "armed"
    /\ spc' = "returned"
    /\ temp_tag' = IF variant = "http" THEN "released" ELSE temp_tag
    /\ UNCHANGED <<codecVars, exportVars, treeVars, recvVars, variant, server, tunnel, dropped,
                   closeTask, rmThread, chanVars, dlVars, taskVars, extVars, endpoint, stagingDir, store, sent,
                   rxClosed, importVars>>

\* a wrapper that reports the failure twice
ReportError_twice ==
    /\ spc = "err"
    /\ rxClosed \/ Len(queue) < capacity
    /\ sent' = IF rxClosed THEN sent ELSE sent \o <<EvError, EvError>>
    /\ queue' = IF rxClosed THEN queue ELSE Append(queue, EvError)
    /\ endpoint' = IF endpoint \in {"bound", "accepting"} THEN "closed" ELSE endpoint
    /\ server' = IF server = "bound" THEN "stopped" ELSE server
    /\ shutdown' = IF shutdown = "armed" THEN "signalled" ELSE shutdown
    /\ tunnel' = IF tunnel = "open" THEN "closed" ELSE tunnel
    /\ temp_tag' = IF temp_tag = "held" THEN "released" ELSE temp_tag
    /\ spc' = "failed"
    /\ UNCHANGED <<codecVars, exportVars, treeVars, recvVars, variant, dropped, closeTask,
                   rmThread, capacity, delivered, dlVars, taskVars, extVars, stagingDir, store, rxClosed,
                   handle, importVars>>

\* send_internal / start_http_send_internal returned Err(e): its locals are
\* dropped (the endpoint or router, a listener not yet handed to the server,
\* the sender of the shutdown channel, the tunnel; data_dir is a PathBuf);
\* then send_file / start_http_send:
\* Err(e) => progress_sender.send(Error(..)).await.ok(); Err(e)
ReportError ==
    /\ spc = "err"
    /\ rxClosed \/ Len(queue) < capacity
    /\ sent' = IF rxClosed THEN sent ELSE Append(sent, EvError)
    /\ queue' = IF rxClosed THEN queue ELSE Append(queue, EvError)
    /\ endpoint' = IF endpoint \in {"bound", "accepting"} THEN "closed" ELSE endpoint
    /\ server' = IF server = "bound" THEN "stopped" ELSE server
    /\ shutdown' = IF shutdown = "armed" THEN "signalled" ELSE shutdown
    /\ tunnel' = IF tunnel = "open" THEN "closed" ELSE tunnel
    /\ temp_tag' = IF temp_tag = "held" THEN "released" ELSE temp_tag
    /\ spc' = "failed"
    /\ UNCHANGED <<codecVars, exportVars, treeVars, recvVars, variant, dropped, closeTask,
                   rmThread, capacity, delivered, dlVars, taskVars, extVars, stagingDir, store, rxClosed,
                   handle, importVars>>

CodecIdle ==
    /\ cpath = <<>>
    /\ croot = <<"/">>
    /\ crel = TRUE
    /\ cenc = [ok |-> FALSE, val |-> "none"]
    /\ cdec = [ok |-> FALSE, val |-> "none"]
    /\ cpc = "idle"

NextImport ==
    \/ CloseReceiver
    \/ SendConnecting
    \/ BindEndpoint
    \/ CreateDataDir
    \/ LoadStore
    \/ ImportWalk
    \/ ImportEmit
    \/ ImportStreamItem
    \/ ImportStoreCollection
    \/ SpawnRouter
    \/ AwaitOnline
    \/ SendReady
    \/ ReturnHandle
    \/ ReportError

InitImport == CodecIdle /\ InitSend /\ ExportIdle /\ RecvIdle /\ LifeIdle /\ DlIdle /\ TasksIdle /\ ExtIdle

SpecImport == InitImport /\ [][NextImport]_vars

-----------------------------------------------------------------------------
(* The receiver's disk, as the operating system resolves paths *)

\* the directory a lookup of the components ends in: ".." steps up
RECURSIVE ResolveFrom(_, _)
ResolveFrom(at, comps) ==
    IF Len(comps) = 0 THEN at
    ELSE LET c == comps[1]
             next == IF c.kind = "RootDir" THEN <<>>
                     ELSE IF c.kind = "CurDir" THEN at
                     ELSE IF c.kind = "ParentDir"
                          THEN (IF Len(at) = 0 THEN at ELSE SubSeq(at, 1, Len(at) - 1))
                     ELSE Append(at, c.part)
         IN  ResolveFrom(next, Tail(comps))

Resolve(path) == ResolveFrom(<<>>, Components(path))

\* Path::parent() of a path, resolved: the path without its last component
ResolveParent(path) ==
    LET comps == Components(path)
    IN  ResolveFrom(<<>>, SubSeq(comps, 1, Len(comps) - 1))

\* std::env::current_dir() of the receiving process
ExportRoot == <<"/", "w">>

FilePaths(files) == {f.path : f \in files}

OnDisk(files, dirs, rp) == rp \in FilePaths(files) \/ rp \in dirs

\* a build of export that does not look whether the target exists
TargetTaken_never(target) == FALSE

\* target.exists()
TargetTaken(target) == OnDisk(rfiles, rdirs, Resolve(target))

Prefixes(rp) == {SubSeq(rp, 1, k) : k \in 0..Len(rp)}

\* create_dir_all cannot pass a file that stands where a directory is needed
Blocked(rp) == \E q \in Prefixes(rp) : q \in FilePaths(rfiles)

\* the file at rp holds content (a file that was there is replaced)
WriteFile(files, rp, content) ==
    {f \in files : f.path # rp} \cup {[path |-> rp, content |-> content]}

\* what a copy that failed midway leaves behind
Partial == <<0>>

-----------------------------------------------------------------------------
(* export (files.rs) *)

EvExporting_off_by_one(tf, df) ==
    [type |-> "Exporting", total_files |-> tf, done_files |-> df + 1]

EvExporting(tf, df) == [type |-> "Exporting", total_files |-> tf, done_files |-> df]

EvDone == [type |-> "Done"]

\* collection.len()
export_total_files == Len(collection)

ExportRunning == epc \notin {"idle", "ok", "failed", "dropped"}

\* the consumer drops the receiver of the progress channel
CloseExportReceiver ==
    /\ ExportRunning
    /\ ~erxClosed
    /\ erxClosed' = TRUE
    /\ UNCHANGED <<codecVars, treeVars, recvVars, lifeVars, dlVars, taskVars, extVars, temp_tag, sessionVars, importVars, collection, db, rfiles,
                   rdirs, rinit, epc, ei, etarget, rsent, eresult, exportStarted, reach>>

ExportFail(why) == epc' = "failed" /\ eresult' = why

\* std::env::current_dir()?
ExportBegin ==
    /\ epc = "start"
    /\ \/ epc' = (IF export_total_files = 0 THEN "finish" ELSE "emit") /\ eresult' = eresult
       \/ ExportFail("current_dir")
    /\ UNCHANGED <<codecVars, treeVars, recvVars, lifeVars, dlVars, taskVars, extVars, temp_tag, sessionVars, importVars, collection, db, rfiles,
                   rdirs, rinit, ei, etarget, rsent, erxClosed, exportStarted, reach>>

\* progress.send(Exporting{total_files, done_files: i}).await?
ExportEmit ==
    /\ epc = "emit"
    /\ IF erxClosed
       THEN ExportFail("send") /\ rsent' = rsent
       ELSE /\ rsent' = Append(rsent, EvExporting(export_total_files, ei))
            /\ epc' = "check"
            /\ eresult' = eresult
    /\ UNCHANGED <<codecVars, treeVars, recvVars, lifeVars, dlVars, taskVars, extVars, temp_tag, sessionVars, importVars, collection, db, rfiles,
                   rdirs, rinit, ei, etarget, erxClosed, exportStarted, reach>>

\* get_export_path(&root, name)? and the target.exists() test
ExportCheck ==
    /\ epc = "check"
    /\ LET name == collection[ei + 1].name
           target == get_export_path(ExportRoot, name)
       IN  /\ reach' = Append(reach,
                    [i |-> ei, name |-> name, files |-> rfiles, dirs |-> rdirs])
           /\ IF ~target.ok
              THEN ExportFail("name") /\ etarget' = etarget
              ELSE IF TargetTaken(target.val)
              THEN ExportFail("exists") /\ etarget' = etarget
              ELSE epc' = "mkdir" /\ eresult' = eresult /\ etarget' = target.val
    /\ UNCHANGED <<codecVars, treeVars, recvVars, lifeVars, dlVars, taskVars, extVars, temp_tag, sessionVars, importVars, collection, db, rfiles,
                   rdirs, rinit, ei, rsent, erxClosed, exportStarted>>

\* create_dir_all(parent).await?: every missing directory down to the parent
\* is made, or the call fails after making the first k of them
ExportMkdir ==
    /\ epc = "mkdir"
    /\ LET parent == ResolveParent(etarget)
       IN  IF Blocked(parent)
           THEN ExportFail("mkdir") /\ rdirs' = rdirs
           ELSE \/ /\ rdirs' = rdirs \cup Prefixes(parent)
                   /\ epc' = "copy"
                   /\ eresult' = eresult
                \/ \E k \in 1..Len(parent) :
                      /\ SubSeq(parent, 1, k) \notin rdirs
                      /\ rdirs' = rdirs \cup {q \in Prefixes(parent) : Len(q) < k}
                      /\ ExportFail("mkdir")
    /\ UNCHANGED <<codecVars, treeVars, recvVars, lifeVars, dlVars, taskVars, extVars, temp_tag, sessionVars, importVars, collection, db, rfiles,
                   rinit, ei, etarget, rsent, erxClosed, exportStarted, reach>>

\* db.export_with_opts(hash, target, Copy) and the loop over its stream: the
\* stream ends without an Error item once the file is materialized; it
\* yields Error when the blob is missing or the copy fails, which can leave
\* no file or a partial one
ExportCopy ==
    /\ epc = "copy"
    /\ exportStarted' = exportStarted \cup {ei}
    /\ LET hash == collection[ei + 1].hash
           rp == Resolve(etarget)
       IN  \/ /\ hash \in db.blobs
              /\ rfiles' = WriteFile(rfiles, rp, ContentOf(hash))
              /\ ei' = ei + 1
              /\ epc' = IF ei + 1 = export_total_files THEN "finish" ELSE "emit"
              /\ eresult' = eresult
           \/ /\ rfiles' = rfiles
              /\ ei' = ei
              /\ ExportFail("copy")
           \/ /\ hash \in db.blobs
              /\ rfiles' = WriteFile(rfiles, rp, Partial)
              /\ ei' = ei
              /\ ExportFail("copy")
    /\ UNCHANGED <<codecVars, treeVars, recvVars, lifeVars, dlVars, taskVars, extVars, temp_tag, sessionVars, importVars, collection, db, rdirs,
                   rinit, etarget, rsent, erxClosed, reach>>

\* progress.send(Done).await?; Ok(())
ExportFinish ==
    /\ epc = "finish"
    /\ IF erxClosed
       THEN ExportFail("send") /\ rsent' = rsent
       ELSE rsent' = Append(rsent, EvDone) /\ epc' = "ok" /\ eresult' = "ok"
    /\ UNCHANGED <<codecVars, treeVars, recvVars, lifeVars, dlVars, taskVars, extVars, temp_tag, sessionVars, importVars, collection, db, rfiles,
                   rdirs, rinit, ei, etarget, erxClosed, exportStarted, reach>>

-----------------------------------------------------------------------------
(* export on a Collection received from a peer *)

H1 == Hash(<<1>>)
H2 == Hash(<<2, 2>>)

\* names a peer can put into a Collection, hostile ones among them
PeerNames ==
    { <<"a">>,
      <<"d", "/", "x">>,
      <<"d">>,
      <<".", ".", "/", "e">>,
      <<"d", "/", ".", ".", "/", ".", ".", "/", "e">>,
      <<"d", "/", ".", "/", "x">>,
      <<"d", "\\", "x">>,
      <<"/", "e">>,
      <<>> }

PeerEntries == {[name |-> n, hash |-> IF n = <<"d", "/", "x">> THEN H2 ELSE H1] : n \in PeerNames}

PeerCollections == UNION {[1..k -> PeerEntries] : k \in 0..MaxEntries}

RootDirs == {<<>>, <<<<"w">>>>}

Old == <<7>>

\* what the receiver's working directory can hold beforehand
DiskConfigs ==
    { [files |-> {}, dirs |-> RootDirs],
      [files |-> {[path |-> <<<<"w">>, <<"a">>>>, content |-> Old]}, dirs |-> RootDirs],
      [files |-> {[path |-> <<<<"w">>, <<"d">>>>, content |-> Old]}, dirs |-> RootDirs],
      [files |-> {[path |-> <<<<"w">>, <<"d">>, <<"x">>>>, content |-> Old]},
       dirs |-> RootDirs \cup {<<<<"w">>, <<"d">>>>}],
      [files |-> {[path |-> <<<<"w">>, <<"d">>, nX>>, content |-> Old]},
       dirs |-> RootDirs \cup {<<<<"w">>, <<"d">>>>}] }

InitExport ==
    /\ CodecIdle
    /\ SenderIdle
    /\ RecvIdle
    /\ LifeIdle
    /\ DlIdle
    /\ TasksIdle
    /\ ExtIdle
    /\ collection \in PeerCollections
    /\ db \in {[blobs |-> {H1, H2}, collections |-> {}], [blobs |-> {H1}, collections |-> {}]}
    /\ rinit \in DiskConfigs
    /\ rfiles = rinit.files
    /\ rdirs = rinit.dirs
    /\ epc = "start"
    /\ ei = 0
    /\ etarget = <<>>
    /\ rsent = <<>>
    /\ erxClosed = FALSE
    /\ eresult = "none"
    /\ exportStarted = {}
    /\ reach = <<>>

NextExport ==
    \/ CloseExportReceiver
    \/ ExportBegin
    \/ ExportEmit
    \/ ExportCheck
    \/ ExportMkdir
    \/ ExportCopy
    \/ ExportFinish

SpecExport == InitExport /\ [][NextExport]_vars

-----------------------------------------------------------------------------
(* import followed by export of the imported Collection from the same store *)

InitRoundTrip == CodecIdle /\ InitSend /\ ExportIdle /\ RecvIdle /\ LifeIdle /\ DlIdle /\ TasksIdle /\ ExtIdle

\* the Collection import returned is handed to export
StartExport ==
    /\ spc = "returned"
    /\ epc = "idle"
    /\ collection' = iresult.val.collection
    /\ db' = store
    /\ \E cfg \in DiskConfigs :
          /\ rinit' = cfg
          /\ rfiles' = cfg.files
          /\ rdirs' = cfg.dirs
    /\ epc' = "start"
    /\ UNCHANGED <<codecVars, treeVars, recvVars, lifeVars, dlVars, taskVars, extVars, temp_tag, sessionVars, importVars, ei, etarget, rsent,
                   erxClosed, eresult, exportStarted, reach>>

NextRoundTrip == NextImport \/ StartExport \/ NextExport

SpecRoundTrip == InitRoundTrip /\ [][NextRoundTrip]_vars

-----------------------------------------------------------------------------
(* Codec harness: the inputs are drawn in Init, the actions apply the code *)

Roots == {<<"/", "w">>, <<"/">>, <<"/", "w", "/", "o">>}

NoResult == [ok |-> FALSE, val |-> "none"]

InitCodec ==
    /\ cpath \in Strings(MaxLen)
    /\ croot \in Roots
    /\ crel \in BOOLEAN
    /\ cenc = NoResult
    /\ cdec = NoResult
    /\ cpc = "input"
    /\ SenderIdle
    /\ ExportIdle
    /\ RecvIdle
    /\ LifeIdle
    /\ DlIdle
    /\ TasksIdle
    /\ ExtIdle

Encode ==
    /\ cpc = "input"
    /\ cenc' = canonicalized_path_to_string(cpath, crel)
    /\ cpc' = "encoded"
    /\ UNCHANGED <<cpath, croot, crel, cdec, treeVars, recvVars, lifeVars, dlVars, taskVars, extVars, temp_tag, sessionVars, importVars, exportVars>>

Decode ==
    /\ cpc = "input"
    /\ cdec' = get_export_path(croot, cpath)
    /\ cpc' = "decoded"
    /\ UNCHANGED <<cpath, croot, crel, cenc, treeVars, recvVars, lifeVars, dlVars, taskVars, extVars, temp_tag, sessionVars, importVars, exportVars>>

DecodeEncoded ==
    /\ cpc = "encoded"
    /\ cenc.ok
    /\ cdec' = get_export_path(croot, cenc.val)
    /\ cpc' = "roundtrip"
    /\ UNCHANGED <<cpath, croot, crel, cenc, treeVars, recvVars, lifeVars, dlVars, taskVars, extVars, temp_tag, sessionVars, importVars, exportVars>>

NextCodec == Encode \/ Decode \/ DecodeEncoded

SpecCodec == InitCodec /\ [][NextCodec]_vars

-----------------------------------------------------------------------------
(* Claims about the codec (SpecCodec) *)

\* s[i..j] is a whole '/'-separated piece of s, read off the characters
IsPiece(s, i, j) ==
    /\ i \in 1..Len(s) /\ j \in i..Len(s)
    /\ (i = 1 \/ s[i - 1] = "/")
    /\ (j = Len(s) \/ s[j + 1] = "/")
    /\ \A k \in i..j : s[k] # "/"

HasDotPiece(s) == \E i \in 1..Len(s) : IsPiece(s, i, i) /\ s[i] = "."

HasDotDotPiece(s) ==
    \E i \in 1..Len(s) : i < Len(s) /\ IsPiece(s, i, i + 1) /\ s[i] = "." /\ s[i + 1] = "."

HasLeadingDot(s) == IsPiece(s, 1, 1) /\ s[1] = "."

HasBackslash(s) == \E i \in 1..Len(s) : s[i] = "\\"

\* C1: get_export_path returns an error whenever some '/'-separated part of
\* the name is "..", is ".", or contains a backslash, and whether it returns
\* an error is the same for every root.
C1_DecodeRejects ==
    cpc = "decoded" =>
        /\ (HasDotDotPiece(cpath) \/ HasDotPiece(cpath) \/ HasBackslash(cpath)) => ~cdec.ok
        /\ \A r \in Roots : get_export_path(r, cpath).ok = cdec.ok

\* C1 witness: a name with a "." part in the middle has been decoded and refused
C1_Witness ==
    /\ cpc = "decoded"
    /\ cpath = <<"a", "/", ".", "/", "a">>
    /\ ~cdec.ok

\* C3 as stated: with must_be_relative, encode returns an error for every
\* path with a ".." piece, a "." piece at any position, or a backslash.
C3_AsStated ==
    (cpc = "encoded" /\ crel) =>
        ((HasDotDotPiece(cpath) \/ HasDotPiece(cpath) \/ HasBackslash(cpath)) => ~cenc.ok)

\* C3 amended: with must_be_relative, encode returns an error for every path
\* with a ".." piece, a "." piece at the start of the path, or a backslash.
C3_EncodeRejects ==
    (cpc = "encoded" /\ crel) =>
        ((HasDotDotPiece(cpath) \/ HasLeadingDot(cpath) \/ HasBackslash(cpath)) => ~cenc.ok)

\* C3 witness: a path that starts with "./" has been encoded and refused
C3_Witness ==
    /\ cpc = "encoded" /\ crel
    /\ cpath = <<".", "/", "a">>
    /\ ~cenc.ok

\* a relative path whose pieces are all normal: no root, no backslash, no
\* "." or ".." piece
ValidRelative(s) ==
    /\ ~HasRoot(s)
    /\ ~HasBackslash(s)
    /\ ~HasDotPiece(s)
    /\ ~HasDotDotPiece(s)

\* C4: for a relative path of normal components, encode succeeds, and decoding
\* the encoded name under any root succeeds and yields root joined with the
\* path.
C4_RoundTrip ==
    (crel /\ ValidRelative(cpath)) =>
        /\ cpc = "encoded" => cenc.ok
        /\ cpc = "roundtrip" => (cdec.ok /\ PathEq(cdec.val, Push(croot, cpath)))

\* C4 witness: a two-level path has gone through encode and decode
C4_Witness ==
    /\ cpc = "roundtrip" /\ crel
    /\ cpath = <<"a", "/", "a", ".", "a">>
    /\ croot = <<"/", "w">>
    /\ cdec.ok /\ cdec.val = <<"/", "w", "/", "a", "/", "a", ".", "a">>

-----------------------------------------------------------------------------
(* Claims about import (SpecImport) *)

RECURSIVE SumSeq(_)
SumSeq(q) == IF Len(q) = 0 THEN 0 ELSE q[1] + SumSeq(Tail(q))

\* the regular files that exist at or below the imported path
RegularFilesBelow(path) == {f \in srcFiles : f.kind = "file" /\ Under(f.path, path)}

NamesDistinct(c) == \A i, j \in 1..Len(c) : c[i].name = c[j].name => i = j

NamesAscending(c) == \A i \in 1..(Len(c) - 1) : StrLess(c[i].name, c[i + 1].name)

\* C5 as stated: a successful import has exactly one entry for each regular
\* file the imported path contains.
C5_AsStated ==
    iresult.ok => Len(iresult.val.collection) = Cardinality(RegularFilesBelow(ipath))

\* C5 amended: a successful import has exactly one entry for each regular
\* file the walk enumerated (files below a directory the walk could not list
\* are left out), the names are pairwise distinct and ascending, and the
\* returned size is the sum of the sizes the add streams reported.
C5_ImportShape ==
    iresult.ok =>
        /\ Len(iresult.val.collection) = Cardinality(WalkedFiles(ipath))
        /\ NamesDistinct(iresult.val.collection)
        /\ NamesAscending(iresult.val.collection)
        /\ iresult.val.size = SumSeq(reported)

\* C5 witness: three files, walked in an order that is not the sorted one and
\* each with a reported size, have been imported
C5_Witness ==
    /\ iresult.ok
    /\ Len(iresult.val.collection) = 3
    /\ Len(reported) = 3
    /\ iresult.val.size = 4
    /\ ~NamesAscending(data_sources)

\* the scenario of C6: d/ holds exactly x.txt and sub/y.txt, and d/ is imported
C6_Scenario ==
    /\ ipath = DirD
    /\ unreadable = {}
    /\ srcFiles \ {FileA} = {FileX, FileY}

NameDX == Join(<<nD, nX>>, "/")
NameDSubY == Join(<<nD, nSub, nY>>, "/")

\* C6 as stated: the entry names are "x.txt" and "sub/y.txt".
C6_AsStated ==
    (C6_Scenario /\ iresult.ok) =>
        {iresult.val.collection[i].name : i \in 1..Len(iresult.val.collection)}
            = {nX, Join(<<nSub, nY>>, "/")}

\* C6 amended: the entry names are "d/sub/y.txt" and "d/x.txt", relative to
\* the parent of the imported directory, in that (lexicographic) order, and
\* the Collection is the same whichever file the walk returned first.
C6_ImportNames ==
    (C6_Scenario /\ iresult.ok) =>
        iresult.val.collection =
            << [name |-> NameDSubY, hash |-> Hash(FileY.content)],
               [name |-> NameDX, hash |-> Hash(FileX.content)] >>

\* C6 witness: the walk returned x.txt before sub/y.txt and the import succeeded
C6_Witness ==
    /\ C6_Scenario
    /\ iresult.ok
    /\ data_sources[1].name = NameDX

HasReady(events) == \E i \in 1..Len(events) : events[i].type = "ReadyToSend"

\* C8: once the add stream of a file has yielded Error, or ended, before Done,
\* import has returned an error, no Collection blob is in the store, and the
\* session does not emit ReadyToSend.
C8_NoPartialCollection ==
    stagingFailed =>
        /\ ~iresult.ok
        /\ spc \in {"err", "failed"}
        /\ store.collections = {}
        /\ ~HasReady(sent)
        /\ ~handle

\* C8 witness: the second file failed after the first was staged, and the
\* session has ended with the first file's blob left in the store
C8_Witness ==
    /\ stagingFailed
    /\ spc = "failed"
    /\ done_files = 1
    /\ store.blobs # {}

-----------------------------------------------------------------------------
(* Claims about export (SpecExport) *)

\* a name with a part that is "..", is "." or holds a backslash
BadName(name) == HasDotDotPiece(name) \/ HasDotPiece(name) \/ HasBackslash(name)

\* where the operating system finds root/name
DiskTarget(name) == Resolve(ExportRoot \o <<"/">> \o name)

\* strictly below the export root /w
UnderRoot(rp) == Len(rp) > 1 /\ rp[1] = <<"w">>

ReachedIndices == {reach[k].i : k \in 1..Len(reach)}

\* C2: whatever names the Collection holds, every directory export creates
\* and every file it materializes lies below the export root, at the target
\* of an entry whose name went through get_export_path; once a name has been
\* rejected the disk stays as it was and no entry from that one on is
\* materialized.
C2_ExportStaysUnderRoot ==
    /\ \A f \in rfiles \ rinit.files :
          /\ UnderRoot(f.path)
          /\ \E k \in 1..Len(reach) : f.path = DiskTarget(reach[k].name)
    /\ \A d \in rdirs \ rinit.dirs : UnderRoot(d)
    /\ exportStarted \subseteq ReachedIndices
    /\ \A k \in 1..Len(reach) :
          BadName(reach[k].name) =>
              /\ rfiles = reach[k].files
              /\ rdirs = reach[k].dirs
              /\ \A j \in exportStarted : j < reach[k].i
              /\ k = Len(reach)
              /\ epc = "failed"

\* C2 witness: the first entry was written below the root, then the second
\* entry's name "../e" was rejected
C2_Witness ==
    /\ Len(reach) = 2
    /\ reach[2].name = <<".", ".", "/", "e">>
    /\ eresult = "name"
    /\ rfiles # rinit.files
    /\ rdirs # rinit.dirs

\* C9: when the loop reaches an entry whose destination exists, export has
\* returned the "already exists" error, the disk is as it was, no
\* materialization was started for the entry, and no later entry is reached.
C9_DestinationExists ==
    \A k \in 1..Len(reach) :
        (~BadName(reach[k].name)
            /\ OnDisk(reach[k].files, reach[k].dirs, DiskTarget(reach[k].name))) =>
                /\ epc = "failed"
                /\ eresult = "exists"
                /\ rfiles = reach[k].files
                /\ rdirs = reach[k].dirs
                /\ reach[k].i \notin exportStarted
                /\ k = Len(reach)
                /\ ei = reach[k].i
                /\ Len(rsent) = reach[k].i + 1

\* C9 witness: the second entry's destination d/x was a file already, after
\* the first entry had been written
C9_Witness ==
    /\ Len(reach) = 2
    /\ reach[2].name = <<"d", "/", "x">>
    /\ [path |-> <<<<"w">>, <<"d">>, <<"x">>>>, content |-> Old] \in rfiles
    /\ exportStarted = {0}
    /\ eresult = "exists"

\* the events of a complete export of n entries
ExportEvents(n) ==
    [k \in 1..(n + 1) |->
        IF k <= n THEN [type |-> "Exporting", total_files |-> n, done_files |-> k - 1]
        ELSE [type |-> "Done"]]

IsPrefix(p, q) == Len(p) <= Len(q) /\ \A k \in 1..Len(p) : p[k] = q[k]

HasDone(events) == \E k \in 1..Len(events) : events[k].type = "Done"

\* C10: export emits Exporting{n, i} for i = 0, 1, .. in collection order,
\* each before entry i is looked at or written; a successful export has
\* emitted all n of them and then one Done; a failed export has emitted no
\* Done.
C10_ExportEvents ==
    /\ IsPrefix(rsent, ExportEvents(Len(collection)))
    /\ \A i \in ReachedIndices \cup exportStarted : i + 1 <= Len(rsent)
    /\ eresult = "ok" => rsent = ExportEvents(Len(collection))
    /\ epc = "failed" => ~HasDone(rsent)
    /\ HasDone(rsent) => eresult = "ok"

\* C10 witness: a successful export of two entries
C10_Witness ==
    /\ eresult = "ok"
    /\ Len(collection) = 2
    /\ exportStarted = {0, 1}
    /\ Len(rsent) = 3

-----------------------------------------------------------------------------
(* Claims about import followed by export (SpecRoundTrip) *)

PathParts(path) == SelectSeq(Split(path, "/"), LAMBDA x : x # <<>>)

\* where the file must reappear: below the export root, at its path relative
\* to the parent of the imported path
ExpectedAt(f) ==
    LET parts == PathParts(f.path)
        skip == Len(PathParts(Parent(ipath)))
    IN  <<<<"w">>>> \o SubSeq(parts, skip + 1, Len(parts))

ImportedFiles == {data_sources[k].file : k \in 1..Len(data_sources)}

\* C7: after a successful import and a successful export of the imported
\* Collection, the files export created are exactly one per imported file,
\* each at the same relative path below the export root with the imported
\* content; the files that were there before are untouched.  When none of
\* the target paths existed, the export of an imported Collection never stops
\* on a rejected name or on an existing destination.
C7_ImportExportRoundTrip ==
    /\ eresult = "ok" =>
          /\ rfiles \ rinit.files =
                {[path |-> ExpectedAt(f), content |-> f.content] : f \in ImportedFiles}
          /\ Cardinality(rfiles \ rinit.files) = Len(data_sources)
          /\ rinit.files \subseteq rfiles
    /\ (epc = "failed"
          /\ \A f \in ImportedFiles : ~OnDisk(rinit.files, rinit.dirs, ExpectedAt(f)))
            => eresult \notin {"name", "exists"}

\* C7 witness: three files, two of them with the same content, were imported
\* and exported next to a file that was there before
C7_Witness ==
    /\ eresult = "ok"
    /\ Len(data_sources) = 3
    /\ Cardinality(rfiles \ rinit.files) = 3
    /\ rinit.files # {}

-----------------------------------------------------------------------------
(* One receive session: receive_file -> receive_logic -> export *)

MaxTicks == 1

TicketStrings == {<<"blob", "h">>, <<"junk">>}

\* BlobTicket::from_str(&ticket_str)
from_str_lenient(s) == Ok([hash |-> "h"])

from_str(s) == IF s[1] = "blob" THEN Ok([hash |-> s[2]]) ELSE Err("parse")

ReceiveConnecting == [type |-> "Connecting"]

ReceiveConnected(tf, ts) == [type |-> "Connected", total_files |-> tf, total_size |-> ts]

ReceiveDownloading(d, t) == [type |-> "Downloading", downloaded |-> d, total |-> t]

\* ReceiveStatus::Error(e.to_string()): the event carries the text of the
\* error it reports
ReceiveErrorOf(cause) == [type |-> "Error", cause |-> cause]

\* the Error of a ticket that does not parse or of a failed current_dir()
ReceiveError == ReceiveErrorOf("setup")

\* get_hash_seq_and_sizes: the size of the manifest blob, then of each blob
sizes == <<Len(collection) + 1>> \o [k \in 1..Len(collection) |-> Len(ContentOf(collection[k].hash))]

recv_total_size == SumSeq(sizes)

payload_size == SumSeq(Tail(sizes))

recv_total_files == Len(sizes) - 1

FullStore == [blobs |-> {H1, H2}, collections |-> {}]

PartStore == [blobs |-> {H1}, collections |-> {}]

ReceiveRunning == rpc \notin {"idle", "finished", "cancelled"}

\* the user interface drops the receiver of the progress channel
CloseReceiveReceiver ==
    /\ ReceiveRunning
    /\ ~erxClosed
    /\ erxClosed' = TRUE
    /\ UNCHANGED <<codecVars, treeVars, sessionVars, importVars, lifeVars, dlVars, taskVars, extVars, temp_tag, recvVars,
                   collection, db, rfiles, rdirs, rinit, epc, ei, etarget, rsent, eresult,
                   exportStarted, reach>>

\* progress.send(ev).await? inside receive_logic
ReceiveSendOrFail(ev, next) ==
    IF erxClosed
    THEN rpc' = "return_err" /\ rsent' = rsent
    ELSE rpc' = next /\ rsent' = Append(rsent, ev)

\* progress_sender.send(Error(..)).await.ok() in receive_file
ReceiveReport == rsent' = IF erxClosed THEN rsent ELSE Append(rsent, ReceiveError)

ReceiveFrame == UNCHANGED <<codecVars, treeVars, sessionVars, importVars, lifeVars, dlVars, taskVars, extVars, temp_tag>>

\* receive_file: BlobTicket::from_str(&ticket_str) names the directory, or
\* the Error is sent and the session is over
ReceiveParse ==
    /\ rpc = "start"
    /\ IF from_str(ticket_str).ok
       THEN rpc' = "cwd" /\ rsent' = rsent
       ELSE rpc' = "finished" /\ ReceiveReport
    /\ ReceiveFrame
    /\ UNCHANGED <<ticket_str, ritem, rlogic, tmpDir, rlocal, rstore, rendpoint, removals, ticks,
                   collection, db, rfiles, rdirs, rinit, epc, ei, etarget, erxClosed,
                   eresult, exportStarted, reach>>

\* receive_file: std::env::current_dir()
ReceiveCurrentDir ==
    /\ rpc = "cwd"
    /\ \/ rpc' = "connecting" /\ rsent' = rsent
       \/ rpc' = "finished" /\ ReceiveReport
    /\ ReceiveFrame
    /\ UNCHANGED <<ticket_str, ritem, rlogic, tmpDir, rlocal, rstore, rendpoint, removals, ticks,
                   collection, db, rfiles, rdirs, rinit, epc, ei, etarget, erxClosed,
                   eresult, exportStarted, reach>>

\* receive_logic: progress.send(Connecting).await?
ReceiveSendConnecting ==
    /\ rpc = "connecting"
    /\ ReceiveSendOrFail(ReceiveConnecting, "bind")
    /\ ReceiveFrame
    /\ UNCHANGED <<ticket_str, ritem, rlogic, tmpDir, rlocal, rstore, rendpoint, removals, ticks,
                   collection, db, rfiles, rdirs, rinit, epc, ei, etarget, erxClosed,
                   eresult, exportStarted, reach>>

\* receive_logic: the ticket is parsed again, then Endpoint::builder()..bind().await?
ReceiveBind ==
    /\ rpc = "bind"
    /\ IF ~from_str(ticket_str).ok
       THEN rpc' = "return_err" /\ rendpoint' = rendpoint
       ELSE \/ rpc' = "load" /\ rendpoint' = "bound"
            \/ rpc' = "return_err" /\ rendpoint' = rendpoint
    /\ ReceiveFrame
    /\ UNCHANGED <<ticket_str, ritem, rlogic, tmpDir, rlocal, rstore, removals, ticks,
                   collection, db, rfiles, rdirs, rinit, epc, ei, etarget, rsent, erxClosed,
                   eresult, exportStarted, reach>>

\* receive_logic: FsStore::load(data_dir).await? creates the directory
ReceiveLoadStore ==
    /\ rpc = "load"
    /\ \/ rpc' = "local" /\ tmpDir' = TRUE /\ rstore' = "open"
       \/ rpc' = "return_err" /\ tmpDir' \in {tmpDir, TRUE} /\ rstore' = rstore
    /\ ReceiveFrame
    /\ UNCHANGED <<ticket_str, ritem, rlogic, rlocal, rendpoint, removals, ticks,
                   collection, db, rfiles, rdirs, rinit, epc, ei, etarget, rsent, erxClosed,
                   eresult, exportStarted, reach>>

\* a session that connects to the sender whatever the store holds
ReceiveLocal_always_connects ==
    /\ rpc = "local"
    /\ \/ rpc' = "connect"
       \/ rpc' = "return_err"
    /\ ReceiveFrame
    /\ UNCHANGED <<ticket_str, ritem, rlogic, tmpDir, rlocal, rstore, rendpoint, removals, ticks,
                   collection, db, rfiles, rdirs, rinit, epc, ei, etarget, rsent, erxClosed,
                   eresult, exportStarted, reach>>

\* receive_logic: db.remote().local(hash_and_format).await? and is_complete()
ReceiveLocal ==
    /\ rpc = "local"
    /\ \/ rpc' = IF rlocal = "complete" THEN "collection" ELSE "connect"
       \/ rpc' = "return_err"
    /\ ReceiveFrame
    /\ UNCHANGED <<ticket_str, ritem, rlogic, tmpDir, rlocal, rstore, rendpoint, removals, ticks,
                   collection, db, rfiles, rdirs, rinit, epc, ei, etarget, rsent, erxClosed,
                   eresult, exportStarted, reach>>

\* receive_logic: endpoint.connect(addr, BlobsAlpn).await?
ReceiveConnect ==
    /\ rpc = "connect"
    /\ rpc' \in {"sizes", "return_err"}
    /\ ReceiveFrame
    /\ UNCHANGED <<ticket_str, ritem, rlogic, tmpDir, rlocal, rstore, rendpoint, removals, ticks,
                   collection, db, rfiles, rdirs, rinit, epc, ei, etarget, rsent, erxClosed,
                   eresult, exportStarted, reach>>

\* receive_logic: get_hash_seq_and_sizes(..).await.map_err(..)?
ReceiveSizes ==
    /\ rpc = "sizes"
    /\ rpc' \in {"connected", "return_err"}
    /\ ReceiveFrame
    /\ UNCHANGED <<ticket_str, ritem, rlogic, tmpDir, rlocal, rstore, rendpoint, removals, ticks,
                   collection, db, rfiles, rdirs, rinit, epc, ei, etarget, rsent, erxClosed,
                   eresult, exportStarted, reach>>

\* receive_logic: progress.send(Connected{total_files, total_size: payload_size}).await?
ReceiveSendConnected ==
    /\ rpc = "connected"
    /\ ReceiveSendOrFail(ReceiveConnected(recv_total_files, payload_size), "get")
    /\ ReceiveFrame
    /\ UNCHANGED <<ticket_str, ritem, rlogic, tmpDir, rlocal, rstore, rendpoint, removals, ticks,
                   collection, db, rfiles, rdirs, rinit, epc, ei, etarget, erxClosed,
                   eresult, exportStarted, reach>>

\* local.local_bytes()
local_bytes == IF rlocal = "part" THEN 1 ELSE 0

\* a fetch loop that lets an Error item fall into a catch-all arm
ReceiveGetItem_ignores_error ==
    /\ rpc = "get"
    /\ \/ /\ ticks < MaxTicks
          /\ \E offset \in {1, recv_total_size} :
                ReceiveSendOrFail(ReceiveDownloading(local_bytes + offset, recv_total_size),
                                  "get")
          /\ ticks' = ticks + 1
          /\ ritem' = "Progress"
          /\ UNCHANGED <<rlocal, db>>
       \/ /\ rpc' = "collection"
          /\ rlocal' = "complete"
          /\ db' = FullStore
          /\ ritem' = "Done"
          /\ UNCHANGED <<rsent, ticks>>
       \/ /\ rpc' = "get"
          /\ ritem' = "Error"
          /\ UNCHANGED <<rsent, ticks, rlocal, db>>
       \/ /\ rpc' = "collection"
          /\ rlocal' = "part"
          /\ db' = PartStore
          /\ ritem' = "End"
          /\ UNCHANGED <<rsent, ticks>>
    /\ ReceiveFrame
    /\ UNCHANGED <<ticket_str, rlogic, tmpDir, rstore, rendpoint, removals,
                   collection, rfiles, rdirs, rinit, epc, ei, etarget, erxClosed,
                   eresult, exportStarted, reach>>

\* receive_logic: one turn of while let Some(item) = stream.next().await:
\* Progress sends Downloading, Done breaks, Error bails, and the end of the
\* stream leaves the loop
ReceiveGetItem ==
    /\ rpc = "get"
    /\ \/ /\ ticks < MaxTicks
          /\ \E offset \in {1, recv_total_size} :
                ReceiveSendOrFail(ReceiveDownloading(local_bytes + offset, recv_total_size),
                                  "get")
          /\ ticks' = ticks + 1
          /\ ritem' = "Progress"
          /\ UNCHANGED <<rlocal, db>>
       \/ /\ rpc' = "collection"
          /\ rlocal' = "complete"
          /\ db' = FullStore
          /\ ritem' = "Done"
          /\ UNCHANGED <<rsent, ticks>>
       \/ /\ rpc' = "return_err"
          /\ ritem' = "Error"
          /\ UNCHANGED <<rsent, ticks, rlocal, db>>
       \/ /\ rpc' = "collection"
          /\ rlocal' = "part"
          /\ db' = PartStore
          /\ ritem' = "End"
          /\ UNCHANGED <<rsent, ticks>>
    /\ ReceiveFrame
    /\ UNCHANGED <<ticket_str, rlogic, tmpDir, rstore, rendpoint, removals,
                   collection, rfiles, rdirs, rinit, epc, ei, etarget, erxClosed,
                   eresult, exportStarted, reach>>

\* receive_logic: Collection::load(hash, db).await?, then export is entered
ReceiveLoadCollection ==
    /\ rpc = "collection"
    /\ \/ rpc' = "export" /\ epc' = "start"
       \/ rpc' = "return_err" /\ epc' = epc
    /\ ReceiveFrame
    /\ UNCHANGED <<ticket_str, ritem, rlogic, tmpDir, rlocal, rstore, rendpoint, removals, ticks,
                   collection, db, rfiles, rdirs, rinit, ei, etarget, rsent, erxClosed,
                   eresult, exportStarted, reach>>

\* receive_logic: export(&db, collection, progress.clone()).await? has returned
ReceiveExported ==
    /\ rpc = "export"
    /\ epc \in {"ok", "failed"}
    /\ rpc' = IF epc = "ok" THEN "shutdown" ELSE "return_err"
    /\ ReceiveFrame
    /\ UNCHANGED <<ticket_str, ritem, rlogic, tmpDir, rlocal, rstore, rendpoint, removals, ticks,
                   exportVars>>

\* receive_logic: db.shutdown().await?
ReceiveShutdown ==
    /\ rpc = "shutdown"
    /\ \/ rpc' = "done" /\ rstore' = "shutdown"
       \/ rpc' = "return_err" /\ rstore' = rstore
    /\ ReceiveFrame
    /\ UNCHANGED <<ticket_str, ritem, rlogic, tmpDir, rlocal, rendpoint, removals, ticks,
                   exportVars>>

DropLocal(x, live) == IF x = live THEN "dropped" ELSE x

\* receive_logic: progress.send(Done).await?; Ok(())
ReceiveSendDone ==
    /\ rpc = "done"
    /\ IF erxClosed
       THEN /\ rpc' = "return_err"
            /\ UNCHANGED <<rsent, rlogic, rendpoint, rstore>>
       ELSE /\ rsent' = Append(rsent, EvDone)
            /\ rlogic' = "ok"
            /\ rendpoint' = DropLocal(rendpoint, "bound")
            /\ rstore' = DropLocal(rstore, "open")
            /\ rpc' = "cleanup"
    /\ ReceiveFrame
    /\ UNCHANGED <<ticket_str, ritem, tmpDir, rlocal, removals, ticks,
                   collection, db, rfiles, rdirs, rinit, epc, ei, etarget, erxClosed,
                   eresult, exportStarted, reach>>

\* an error path that reports without cleaning up
ReceiveReturnErr_no_cleanup ==
    /\ rpc = "return_err"
    /\ rlogic' = "err"
    /\ rendpoint' = DropLocal(rendpoint, "bound")
    /\ rstore' = DropLocal(rstore, "open")
    /\ rpc' = "report"
    /\ ReceiveFrame
    /\ UNCHANGED <<ticket_str, ritem, tmpDir, rlocal, removals, ticks, exportVars>>

\* receive_logic returns Err(e): its endpoint and store handle are dropped
ReceiveReturnErr ==
    /\ rpc = "return_err"
    /\ rlogic' = "err"
    /\ rendpoint' = DropLocal(rendpoint, "bound")
    /\ rstore' = DropLocal(rstore, "open")
    /\ rpc' = "cleanup"
    /\ ReceiveFrame
    /\ UNCHANGED <<ticket_str, ritem, tmpDir, rlocal, removals, ticks, exportVars>>

\* receive_file: tokio::fs::remove_dir_all(&data_dir).await, its error printed
ReceiveCleanup ==
    /\ rpc = "cleanup"
    /\ removals' = removals + 1
    /\ tmpDir' \in {FALSE, tmpDir}
    /\ rpc' = IF rlogic = "err" THEN "report" ELSE "finished"
    /\ ReceiveFrame
    /\ UNCHANGED <<ticket_str, ritem, rlogic, rlocal, rstore, rendpoint, ticks, exportVars>>

\* a wrapper that reports the error of remove_dir_all when the removal failed
ReceiveReportError_reports_removal ==
    /\ rpc = "report"
    /\ rsent' = IF erxClosed THEN rsent
              ELSE Append(rsent, ReceiveErrorOf(IF tmpDir THEN "remove_dir_all"
                                                ELSE "receive_logic"))
    /\ rpc' = "finished"
    /\ ReceiveFrame
    /\ UNCHANGED <<ticket_str, ritem, rlogic, tmpDir, rlocal, rstore, rendpoint, removals, ticks,
                   collection, db, rfiles, rdirs, rinit, epc, ei, etarget, erxClosed,
                   eresult, exportStarted, reach>>

\* receive_file: if let Err(e) = result { progress_sender.send(Error(..)).await.ok() }
ReceiveReportError ==
    /\ rpc = "report"
    /\ rsent' = IF erxClosed THEN rsent ELSE Append(rsent, ReceiveErrorOf("receive_logic"))
    /\ rpc' = "finished"
    /\ ReceiveFrame
    /\ UNCHANGED <<ticket_str, ritem, rlogic, tmpDir, rlocal, rstore, rendpoint, removals, ticks,
                   collection, db, rfiles, rdirs, rinit, epc, ei, etarget, erxClosed,
                   eresult, exportStarted, reach>>

\* the task running receive_file is dropped at the await it is suspended at
\* (the runtime is shut down): the future's locals are dropped, nothing else
\* of receive_file runs
ReceiveCancel ==
    /\ ReceiveRunning
    /\ rpc' = "cancelled"
    /\ rendpoint' = DropLocal(rendpoint, "bound")
    /\ rstore' = DropLocal(rstore, "open")
    /\ epc' = IF ExportRunning THEN "dropped" ELSE epc
    /\ ReceiveFrame
    /\ UNCHANGED <<ticket_str, ritem, rlogic, tmpDir, rlocal, removals, ticks,
                   collection, db, rfiles, rdirs, rinit, ei, etarget, rsent, erxClosed,
                   eresult, exportStarted, reach>>

ReceiveNames == {<<"a">>, <<"d", "/", "x">>, <<".", ".", "/", "e">>}

ReceiveCollections ==
    {c \in PeerCollections : \A k \in 1..Len(c) : c[k].name \in ReceiveNames}

ReceiveDisks == {cfg \in DiskConfigs : \A f \in cfg.files : f.path = <<<<"w">>, <<"a">>>>}

\* what the temporary receive directory holds before the session
ReceiveLocals ==
    {[dir |-> FALSE, has |-> "empty"], [dir |-> TRUE, has |-> "empty"],
     [dir |-> TRUE, has |-> "part"], [dir |-> TRUE, has |-> "complete"]}

InitReceive ==
    /\ CodecIdle
    /\ SenderIdle
    /\ LifeIdle
    /\ DlIdle
    /\ TasksIdle
    /\ ExtIdle
    /\ ticket_str \in TicketStrings
    /\ rpc = "start"
    /\ rlogic = "none"
    /\ \E l \in ReceiveLocals :
          /\ from_str(ticket_str).ok \/ ~l.dir
          /\ tmpDir = l.dir
          /\ rlocal = l.has
          /\ db = IF l.has = "complete" THEN FullStore
                  ELSE IF l.has = "part" THEN PartStore ELSE EmptyStore
    /\ rstore = "closed"
    /\ rendpoint = "none"
    /\ removals = 0
    /\ ticks = 0
    /\ ritem = "none"
    /\ collection \in ReceiveCollections
    /\ rinit \in ReceiveDisks
    /\ rfiles = rinit.files
    /\ rdirs = rinit.dirs
    /\ epc = "idle"
    /\ ei = 0
    /\ etarget = <<>>
    /\ rsent = <<>>
    /\ erxClosed = FALSE
    /\ eresult = "none"
    /\ exportStarted = {}
    /\ reach = <<>>

NextReceive ==
    \/ CloseReceiveReceiver
    \/ ReceiveParse
    \/ ReceiveCurrentDir
    \/ ReceiveSendConnecting
    \/ ReceiveBind
    \/ ReceiveLoadStore
    \/ ReceiveLocal
    \/ ReceiveConnect
    \/ ReceiveSizes
    \/ ReceiveSendConnected
    \/ ReceiveGetItem
    \/ ReceiveLoadCollection
    \/ ExportBegin
    \/ ExportEmit
    \/ ExportCheck
    \/ ExportMkdir
    \/ ExportCopy
    \/ ExportFinish
    \/ ReceiveExported
    \/ ReceiveShutdown
    \/ ReceiveSendDone
    \/ ReceiveReturnErr
    \/ ReceiveCleanup
    \/ ReceiveReportError
    \/ ReceiveCancel

SpecReceive == InitReceive /\ [][NextReceive]_vars

-----------------------------------------------------------------------------
(* Claims about the receive session (SpecReceive) *)

DonesIn(events) == {k \in 1..Len(events) : events[k].type = "Done"}

ErrorsIn(events) == {k \in 1..Len(events) : events[k].type = "Error"}

\* C11: every Done of a receive session is the last status event of the
\* session and is delivered after the store has been shut down, and a
\* successful session ends with a Done.
C11_DoneIsTerminal ==
    /\ \A k \in DonesIn(rsent) : k = Len(rsent) /\ rstore = "shutdown"
    /\ (rpc = "finished" /\ rlogic = "ok") => DonesIn(rsent) = {Len(rsent)}

\* C11 witness: a session that succeeded has delivered Done twice, the first
\* of them while the store was open
C11_Witness ==
    /\ rpc = "finished"
    /\ rlogic = "ok"
    /\ Cardinality(DonesIn(rsent)) = 2
    /\ rstore = "shutdown"

\* C12: a session whose ticket string does not parse delivers the Error
\* event and nothing else (nothing at all when the receiver of the channel is
\* gone), never a Connecting; it creates no temporary directory, opens no
\* store and no endpoint, and runs neither receive_logic nor the cleanup.
C12_BadTicket ==
    ticket_str = <<"junk">> =>
        /\ rsent \in {<<>>, <<ReceiveError>>}
        /\ rpc = "finished" => (rsent = <<ReceiveError>> \/ erxClosed)
        /\ rpc = "start" => rsent = <<>>
        /\ ~tmpDir
        /\ rstore = "closed"
        /\ rendpoint = "none"
        /\ rlogic = "none"
        /\ removals = 0
        /\ epc = "idle"

\* C12 witness: the session of an unparsable ticket is over and the one
\* Error was delivered
C12_Witness ==
    /\ ticket_str = <<"junk">>
    /\ rpc = "finished"
    /\ rsent = <<ReceiveError>>

-----------------------------------------------------------------------------
(* The HTTP variant, the SendHandle and the consumer of the progress channel *)

MinCapacity == 1

SendFrame == UNCHANGED <<codecVars, treeVars, exportVars, recvVars, dlVars, taskVars, extVars, importVars>>

\* start_http_send_internal: if collection.len() == 1 { .. } else { bail!(..) }
HttpSingleFile ==
    /\ spc = "single"
    /\ spc' = IF Len(iresult.val.collection) = 1 THEN "connecting" ELSE "err"
    /\ SendFrame
    /\ UNCHANGED <<temp_tag, lifeVars, endpoint, stagingDir, store, sent, rxClosed, handle>>

\* start_http_send_internal: the second progress_sender.send(Connecting).await?
HttpSendConnecting ==
    /\ spc = "connecting"
    /\ SendOrFail(EvConnecting, "listen")
    /\ SendFrame
    /\ UNCHANGED <<temp_tag, handleVars, capacity, delivered, endpoint, stagingDir, store, rxClosed,
                   handle>>

\* start_http_send_internal: TcpListener::bind("127.0.0.1:0").await?, local_addr()?
HttpBindListener ==
    /\ spc = "listen"
    /\ \/ server' = "bound" /\ spc' = "serve"
       \/ server' = server /\ spc' = "err"
    /\ SendFrame
    /\ UNCHANGED <<temp_tag, variant, tunnel, shutdown, dropped, closeTask, rmThread, chanVars,
                   endpoint, stagingDir, store, sent, rxClosed, handle>>

\* start_http_send_internal: the shutdown channel is made and the task
\* running axum::serve(..).with_graceful_shutdown(..) is spawned
HttpSpawnServer ==
    /\ spc = "serve"
    /\ server' = "serving"
    /\ shutdown' = "armed"
    /\ spc' = "tunnel"
    /\ SendFrame
    /\ UNCHANGED <<temp_tag, variant, tunnel, dropped, closeTask, rmThread, chanVars,
                   endpoint, stagingDir, store, sent, rxClosed, handle>>

\* start_http_send_internal: session_builder.connect().await?
\* .http_endpoint().listen_and_forward(to_url).await?
HttpOpenTunnel ==
    /\ spc = "tunnel"
    /\ \/ tunnel' = "open" /\ spc' = "ready"
       \/ tunnel' = tunnel /\ spc' = "err"
    /\ SendFrame
    /\ UNCHANGED <<temp_tag, variant, server, shutdown, dropped, closeTask, rmThread, chanVars,
                   endpoint, stagingDir, store, sent, rxClosed, handle>>

\* a drop that signals the shutdown channel and spawns nothing
DropHandle_spawns_nothing ==
    /\ handle
    /\ ~dropped
    /\ dropped' = TRUE
    /\ shutdown' = "signalled"
    /\ SendFrame
    /\ UNCHANGED <<temp_tag, variant, server, tunnel, closeTask, rmThread, chanVars, sessionVars>>

\* impl Drop for SendHandle: the signal is sent, the task closing the tunnel
\* and the thread removing data_dir are spawned, and drop returns
DropHandle ==
    /\ handle
    /\ ~dropped
    /\ dropped' = TRUE
    /\ shutdown' = "signalled"
    /\ closeTask' = IF tunnel = "open" THEN "spawned" ELSE closeTask
    /\ rmThread' = "spawned"
    /\ SendFrame
    /\ UNCHANGED <<temp_tag, variant, server, tunnel, chanVars, sessionVars>>

\* a background task that shuts the router down without waiting for the signal
ShutdownTask_eager ==
    /\ variant = "p2p"
    /\ shutdown \in {"armed", "signalled"}
    /\ endpoint = "accepting"
    /\ endpoint' = "closed"
    /\ temp_tag' = "released"
    /\ SendFrame
    /\ UNCHANGED <<lifeVars, spc, stagingDir, store, sent, rxClosed, handle>>

\* send_internal's spawned task: shutdown_rx.await, then router.shutdown().await;
\* the task ends and the temp_tag it captured is dropped
ShutdownTask ==
    /\ variant = "p2p"
    /\ shutdown = "signalled"
    /\ endpoint = "accepting"
    /\ endpoint' = "closed"
    /\ temp_tag' = "released"
    /\ SendFrame
    /\ UNCHANGED <<lifeVars, spc, stagingDir, store, sent, rxClosed, handle>>

\* start_http_send_internal's spawned task: the graceful shutdown of
\* axum::serve once shutdown_rx resolves (a signal, or the sender dropped)
ServerTask ==
    /\ shutdown = "signalled"
    /\ server = "serving"
    /\ server' = "stopped"
    /\ SendFrame
    /\ UNCHANGED <<temp_tag, variant, tunnel, shutdown, dropped, closeTask, rmThread, chanVars,
                   sessionVars>>

\* the task drop spawned: let _ = tunnel.close().await
CloseTunnelTask ==
    /\ closeTask = "spawned"
    /\ tunnel' = "closed"
    /\ closeTask' = "done"
    /\ SendFrame
    /\ UNCHANGED <<temp_tag, variant, server, shutdown, dropped, rmThread, chanVars, sessionVars>>

\* the thread drop spawned: let _ = std::fs::remove_dir_all(data_dir)
RemoveDirThread ==
    /\ rmThread = "spawned"
    /\ rmThread' = "done"
    /\ stagingDir' \in {FALSE, stagingDir}
    /\ SendFrame
    /\ UNCHANGED <<temp_tag, variant, server, tunnel, shutdown, dropped, closeTask, chanVars,
                   spc, endpoint, store, sent, rxClosed, handle>>

\* the status events after which the user interface drops its receiver
Final(ev) == ev.type \in {"ReadyToSend", "Error", "Done"}

\* handle_progress_updates: one rx.try_recv() per frame
GuiPoll ==
    /\ ~rxClosed
    /\ Len(queue) > 0
    /\ delivered' = Append(delivered, Head(queue))
    /\ queue' = Tail(queue)
    /\ rxClosed' = Final(Head(queue))
    /\ SendFrame
    /\ UNCHANGED <<temp_tag, handleVars, capacity, spc, endpoint, stagingDir, store, sent, handle>>

SessionTrees == {{FileA}, {FileX}, {FileA, FileX, FileY}}

InitSession ==
    /\ CodecIdle
    /\ ExportIdle
    /\ RecvIdle
    /\ DlIdle
    /\ TasksIdle
    /\ ExtIdle
    /\ srcFiles \in SessionTrees
    /\ unreadable = {}
    /\ ipath \in {FileA.path, DirD}
    /\ spc = "start"
    /\ endpoint = "none"
    /\ stagingDir = FALSE
    /\ store = EmptyStore
    /\ sent = <<>>
    /\ rxClosed = FALSE
    /\ handle = FALSE
    /\ data_sources = <<>>
    /\ names_and_tags = <<>>
    /\ done_files = 0
    /\ done_size = 0
    /\ item_size = 0
    /\ sizeSeen = FALSE
    /\ others = 0
    /\ stagingFailed = FALSE
    /\ reported = <<>>
    /\ iresult = NoImport
    /\ temp_tag = "none"
    /\ variant \in {"p2p", "http"}
    /\ server = "none"
    /\ tunnel = "none"
    /\ shutdown = "none"
    /\ dropped = FALSE
    /\ closeTask = "none"
    /\ rmThread = "none"
    /\ capacity \in {MinCapacity, GuiCapacity}
    /\ queue = <<>>
    /\ delivered = <<>>

NextSession ==
    \/ CloseReceiver
    \/ GuiPoll
    \/ SendConnecting
    \/ BindEndpoint
    \/ CreateDataDir
    \/ LoadStore
    \/ ImportWalk
    \/ ImportEmit
    \/ ImportStreamItem
    \/ ImportStoreCollection
    \/ SpawnRouter
    \/ AwaitOnline
    \/ HttpSingleFile
    \/ HttpSendConnecting
    \/ HttpBindListener
    \/ HttpSpawnServer
    \/ HttpOpenTunnel
    \/ SendReady
    \/ ReturnHandle
    \/ ReportError
    \/ DropHandle
    \/ ShutdownTask
    \/ ServerTask
    \/ CloseTunnelTask
    \/ RemoveDirThread

SpecSession == InitSession /\ [][NextSession]_vars

\* the runtime keeps polling the spawned tasks and the operating system keeps
\* running the spawned thread
SpecSessionFair ==
    /\ SpecSession
    /\ WF_vars(ShutdownTask)
    /\ WF_vars(ServerTask)
    /\ WF_vars(CloseTunnelTask)
    /\ WF_vars(RemoveDirThread)

-----------------------------------------------------------------------------
(* Claims about the send sessions (SpecSession, SpecSessionFair) *)

\* C13: once a SendHandle has been dropped, the thread removing the staging
\* directory eventually has run, the P2P router eventually is shut down, the
\* HTTP server eventually has stopped and the tunnel eventually is closed;
\* the step of the drop itself stops no listener, closes no tunnel and
\* removes no directory: it only signals and spawns.
C13_DropReleases ==
    /\ dropped ~> (rmThread = "done")
    /\ (dropped /\ variant = "p2p") ~> (endpoint = "closed")
    /\ (dropped /\ variant = "http") ~> (server = "stopped" /\ tunnel = "closed")
    /\ [][(~dropped /\ dropped') =>
            /\ endpoint' = endpoint
            /\ server' = server
            /\ tunnel' = tunnel
            /\ stagingDir' = stagingDir
            /\ rmThread' = "spawned"
            /\ shutdown' = "signalled"]_vars

\* C13 witness: the handle of an HTTP session has just been dropped while the
\* server serves, the tunnel is open and the staging directory exists
C13_Witness ==
    /\ dropped
    /\ variant = "http"
    /\ server = "serving"
    /\ tunnel = "open"
    /\ closeTask = "spawned"
    /\ rmThread = "spawned"
    /\ stagingDir

\* C14: a send session that has failed holds no staging directory unless its
\* removal is under way, no bound or accepting endpoint, no server that was
\* not told to stop, and no open tunnel.
C14_FailedSessionLeaksNothing ==
    spc = "failed" =>
        /\ stagingDir => rmThread = "spawned"
        /\ endpoint \notin {"bound", "accepting"}
        /\ server \in {"bound", "serving"} => shutdown = "signalled"
        /\ tunnel # "open"

\* C14 witness: an HTTP session failed after its server was spawned; the
\* server was stopped, the staging directory is still there and nothing is
\* left that would remove it
C14_Witness ==
    /\ spc = "failed"
    /\ variant = "http"
    /\ server = "stopped"
    /\ stagingDir
    /\ rmThread = "none"
    /\ ~handle

\* Connecting first and only first, then Importing events, with ReadyToSend
\* or Error only as the last event
HasSendShape(events) ==
    \A k \in 1..Len(events) :
        /\ k = 1 <=> events[k].type = "Connecting"
        /\ k > 1 => events[k].type \in {"Importing", "ReadyToSend", "Error"}
        /\ events[k].type \in {"ReadyToSend", "Error"} => k = Len(events)

TypesIn(events) == {events[k].type : k \in 1..Len(events)}

\* C16: the status events a P2P send session has delivered are one
\* Connecting, then Importing events, then ReadyToSend or Error as the last
\* one; a session that returned its handle ended with ReadyToSend; a session
\* that failed delivered no ReadyToSend and ended with the one Error, unless
\* the receiver of the channel was gone.
C16_P2PEventShape ==
    variant = "p2p" =>
        /\ HasSendShape(sent)
        /\ spc = "returned" => sent[Len(sent)].type = "ReadyToSend"
        /\ spc = "failed" =>
              /\ "ReadyToSend" \notin TypesIn(sent)
              /\ rxClosed \/ sent[Len(sent)].type = "Error"
        /\ "Error" \in TypesIn(sent) => spc = "failed"
        /\ "ReadyToSend" \in TypesIn(sent) => spc \in {"spawn", "returned"}

\* C16 witness: a P2P session of two files returned its handle
C16_Witness ==
    /\ variant = "p2p"
    /\ spc = "returned"
    /\ Len(sent) = 4
    /\ sent[3].type = "Importing"

\* C17: the status events an HTTP send session has delivered have the shape
\* of the P2P variant: Connecting is the first event and only the first.
C17_HttpEventShape == variant = "http" => HasSendShape(sent)

\* C17 witness: an HTTP session returned its handle after delivering
\* Connecting, Importing, Connecting, ReadyToSend
C17_Witness ==
    /\ variant = "http"
    /\ spc = "returned"
    /\ Len(sent) = 4
    /\ sent[1].type = "Connecting"
    /\ sent[3].type = "Connecting"

\* the positions at which the session task is about to send a status event
SendPositions == {"start", "emit", "connecting", "ready", "err"}

-----------------------------------------------------------------------------
(* Claims about the cleanup of the receive session (SpecReceive) *)

GoodTicket == ticket_str = <<"blob", "h">>

\* C18 as stated: in a session whose ticket parsed the removal is attempted
\* at most once, only after receive_logic has returned, before any Error is
\* delivered, and a session that is over has attempted it.
C18_AsStated ==
    GoodTicket =>
        /\ removals <= 1
        /\ removals = 1 => rlogic # "none"
        /\ ErrorsIn(rsent) # {} => removals = 1
        /\ rpc = "finished" => removals = 1

\* C18: in a session whose ticket parsed the removal is attempted at most
\* once and only after receive_logic has returned; once receive_logic has
\* returned, with Ok or Err, the removal is attempted before the session is
\* over and before the Error of receive_logic is delivered; a session that
\* ends without having run receive_logic (current_dir() failed) delivers
\* its Error without a removal.
C18_CleanupOnce ==
    GoodTicket =>
        /\ removals <= 1
        /\ removals = 1 => rlogic # "none"
        /\ (rlogic # "none" /\ rpc \in {"report", "finished"}) => removals = 1
        /\ (rlogic # "none" /\ ErrorsIn(rsent) # {}) => removals = 1
        /\ (rlogic = "none" /\ rpc = "finished") =>
              /\ removals = 0
              /\ rsent \in {<<>>, <<ReceiveError>>}
              /\ rstore = "closed"
              /\ rendpoint = "none"

\* C18 witness: a session that had started to download failed, the removal
\* was attempted and then the Error was delivered
C18_Witness ==
    /\ GoodTicket
    /\ rpc = "finished"
    /\ rlogic = "err"
    /\ removals = 1
    /\ Len(rsent) >= 3
    /\ rsent[Len(rsent)].type = "Error"
    /\ ~tmpDir

\* C19: a receive task that was dropped after its store had been loaded (the
\* temporary receive directory then exists) has attempted the removal of the
\* directory.
C19_CancelRemovesDir ==
    (rpc = "cancelled" /\ rstore # "closed") => removals = 1

\* C19 witness: the task was dropped while it downloaded; the directory is
\* on disk and no removal was attempted
C19_Witness ==
    /\ rpc = "cancelled"
    /\ rstore = "dropped"
    /\ \E k \in 1..Len(rsent) : rsent[k].type = "Downloading"
    /\ tmpDir
    /\ removals = 0

-----------------------------------------------------------------------------
(* The HTTP download handler (web.rs) *)

\* hashes are HashLen hex digits here; request ids have up to MaxId characters
HashLen == 2

MaxId == 3

IdChars == {"0", "1", "g"}

HexValue(c) == IF c = "0" THEN 0 ELSE 1

IsHex(c) == c \in {"0", "1"}

\* hash_str.parse::<Hash>()
ParseHash(hash_str) ==
    IF Len(hash_str) = HashLen /\ \A k \in 1..Len(hash_str) : IsHex(hash_str[k])
    THEN Ok([k \in 1..HashLen |-> HexValue(hash_str[k])])
    ELSE Err("parse")

\* the blobs a store of an HTTP session can hold: the staged file, the
\* Collection blob, and a blob of another file
StagedBlob == [hash |-> <<0, 1>>, bytes |-> <<2, 2>>]

CollectionBlob == [hash |-> <<1, 1>>, bytes |-> <<9>>]

OtherBlob == [hash |-> <<0, 0>>, bytes |-> <<>>]

Holds(blobs, hash) == \E b \in blobs : b.hash = hash

BytesOf(blobs, hash) == (CHOOSE b \in blobs : b.hash = hash).bytes

Text(status, msg) ==
    [status |-> status, text |-> msg, bytes |-> <<>>, content_type |-> "",
     disposition |-> <<>>]

\* format!("attachment; filename=\"{}\"", state.file_name)
Disposition(file_name) == <<"attachment; filename=", "\"">> \o file_name \o <<"\"">>

\* db.has(hash).await: Ok(true), Ok(false) or an error of the store
HasOutcomes(blobs, parsed) ==
    IF ~parsed.ok THEN {"none"}
    ELSE {IF Holds(blobs, parsed.val) THEN "yes" ELSE "no", "err"}

\* a handler that streams whatever the reader gives without asking has()
download_handler_unchecked(blobs, file_name, hash_str, has) ==
    LET parsed == ParseHash(hash_str)
    IN  IF ~parsed.ok THEN Text(400, "Invalid hash format")
        ELSE [status |-> 200, text |-> "",
              bytes |-> IF Holds(blobs, parsed.val) THEN BytesOf(blobs, parsed.val)
                        ELSE <<>>,
              content_type |-> "application/octet-stream",
              disposition |-> Disposition(file_name)]

download_handler(blobs, file_name, hash_str, has) ==
    LET parsed == ParseHash(hash_str)
    IN  IF ~parsed.ok THEN Text(400, "Invalid hash format")
        ELSE IF has # "yes" THEN Text(404, "Not found")
        ELSE [status |-> 200, text |-> "", bytes |-> BytesOf(blobs, parsed.val),
              content_type |-> "application/octet-stream",
              disposition |-> Disposition(file_name)]

FileNames == {<<"a">>, <<"d", "/", "x">>}

RequestIds == UNION {[1..k -> IdChars] : k \in 1..MaxId}

InitDownload ==
    /\ TasksIdle
    /\ ExtIdle
    /\ CodecIdle
    /\ SenderIdle
    /\ ExportIdle
    /\ RecvIdle
    /\ LifeIdle
    /\ hdb \in SUBSET {StagedBlob, CollectionBlob, OtherBlob}
    /\ hname \in FileNames
    /\ hreq = NoRequest
    /\ hhas = "none"
    /\ hresp = NoResponse

DownloadFrame ==
    UNCHANGED <<codecVars, treeVars, sessionVars, importVars, exportVars, recvVars, lifeVars,
               taskVars, extVars, temp_tag>>

\* a GET /download/{hash} arrives
Request ==
    /\ hreq = NoRequest \/ hresp # NoResponse
    /\ hreq' \in RequestIds
    /\ hhas' = "none"
    /\ hresp' = NoResponse
    /\ DownloadFrame
    /\ UNCHANGED <<hdb, hname>>

\* download_handler answers it
Respond ==
    /\ hreq # NoRequest
    /\ hresp = NoResponse
    /\ \E has \in HasOutcomes(hdb, ParseHash(hreq)) :
          /\ hhas' = has
          /\ hresp' = download_handler(hdb, hname, hreq, has)
    /\ DownloadFrame
    /\ UNCHANGED <<hdb, hname, hreq>>

NextDownload == Request \/ Respond

SpecDownload == InitDownload /\ [][NextDownload]_vars

-----------------------------------------------------------------------------
(* Claims about the download handler (SpecDownload) *)

\* an id of HashLen hex digits
WellFormed(id) == Len(id) = HashLen /\ \A k \in 1..Len(id) : id[k] \in {"0", "1"}

\* the blobs whose hash, written in hex, is the id
Named(id) ==
    {b \in hdb : \A k \in 1..HashLen : (id[k] = "0") <=> (b.hash[k] = 0)}

Answered == hreq # NoRequest /\ hresp # NoResponse

NoBlobBytes == hresp.bytes = <<>> /\ hresp.content_type = "" /\ hresp.disposition = <<>>

ServesBlob(b) ==
    /\ hresp.status = 200
    /\ hresp.bytes = b.bytes
    /\ hresp.content_type = "application/octet-stream"
    /\ hresp.disposition = <<"attachment; filename=", "\"">> \o hname \o <<"\"">>

\* C15 as stated: a malformed id gets 400 without blob bytes, a well-formed
\* id the store does not have gets 404 without blob bytes, and an id the
\* store has gets 200 with the blob's bytes and the two headers.
C15_AsStated ==
    Answered =>
        /\ ~WellFormed(hreq) => (hresp.status = 400 /\ NoBlobBytes)
        /\ (WellFormed(hreq) /\ Named(hreq) = {}) => (hresp.status = 404 /\ NoBlobBytes)
        /\ (WellFormed(hreq) /\ Named(hreq) # {}) => \A b \in Named(hreq) : ServesBlob(b)

\* C15: a malformed id gets 400 without blob bytes; a well-formed id the
\* store does not have gets 404 without blob bytes; an id the store has gets
\* 200 with the blob's bytes and the two headers when the store's lookup
\* answered, and 404 without blob bytes when the lookup failed.
C15_DownloadResponses ==
    Answered =>
        /\ ~WellFormed(hreq) => (hresp.status = 400 /\ NoBlobBytes)
        /\ (WellFormed(hreq) /\ Named(hreq) = {}) => (hresp.status = 404 /\ NoBlobBytes)
        /\ (WellFormed(hreq) /\ Named(hreq) # {} /\ hhas # "err") =>
              \A b \in Named(hreq) : ServesBlob(b)
        /\ (WellFormed(hreq) /\ hhas = "err") => (hresp.status = 404 /\ NoBlobBytes)

\* C15 witness: the staged file was served with its bytes and its name
C15_Witness ==
    /\ Answered
    /\ hreq = <<"0", "1">>
    /\ hname = <<"d", "/", "x">>
    /\ hresp.status = 200
    /\ hresp.bytes = <<2, 2>>

-----------------------------------------------------------------------------
(* Send sessions and receive sessions together *)

InitSessions == InitSession \/ InitReceive

NextSessions == NextSession \/ NextReceive

\* one session of either kind: send_file, start_http_send or receive_file
SpecSessions == InitSessions /\ [][NextSessions]_vars

\* an Error event is the last event of the sequence
ErrorLast(events) ==
    \A k \in 1..Len(events) : events[k].type = "Error" => k = Len(events)

\* C21: in a send session and in a receive session every Error event the
\* channel accepted is the last event of the session, so there is at most
\* one and no status event of any kind follows it.
C21_ErrorIsLast == ErrorLast(sent) /\ ErrorLast(rsent)

\* C21 witness: a send session failed after it had reported progress and
\* its Error was accepted
C21_Witness ==
    /\ spc = "failed"
    /\ Len(sent) >= 3
    /\ sent[2].type = "Importing"
    /\ sent[Len(sent)].type = "Error"

-----------------------------------------------------------------------------
(* Claims about the progress events of import (SpecImport) *)

\* the Importing events among the events the channel accepted
ImportingEvents == SelectSeq(sent, LAMBDA ev : ev.type = "Importing")

\* C23: the j-th Importing event of an import carries done_files = j - 1 and
\* the totals of the pre-pass; done_size never decreases from one event to
\* the next; the event of a file is accepted before the file is staged and
\* no other event comes between them; an import of k files that returned Ok
\* has emitted exactly k Importing events.
C23_ImportingEvents ==
    LET evs == ImportingEvents
    IN  /\ \A j \in 1..Len(evs) :
              /\ evs[j].done_files = j - 1
              /\ evs[j].total_files = Len(data_sources)
              /\ evs[j].total_size = SumMetadata(data_sources)
              /\ j > 1 => evs[j - 1].done_size <= evs[j].done_size
        /\ Len(names_and_tags) <= Len(evs)
        /\ Len(evs) <= Len(names_and_tags) + 1
        /\ spc = "stream" =>
              /\ Len(evs) = Len(names_and_tags) + 1
              /\ sent[Len(sent)].type = "Importing"
        /\ iresult.ok => Len(evs) = Len(data_sources)

\* C23 witness: an import of three files returned Ok after three Importing
\* events whose done_size grew
C23_Witness ==
    /\ iresult.ok
    /\ Len(data_sources) = 3
    /\ Len(ImportingEvents) = 3
    /\ ImportingEvents[3].done_files = 2
    /\ ImportingEvents[2].done_size < ImportingEvents[3].done_size

-----------------------------------------------------------------------------
(* Claims about the P2P send session after import (SpecSession) *)

Failing == spc \in {"err", "failed"}

\* C25: in the P2P variant a ReadyToSend has been emitted only when import
\* had returned Ok, the router had been spawned on the endpoint and the
\* online wait had completed in time (the session is past it); a session
\* that failed, as it does when the timeout elapses, stays failed and has
\* emitted no ReadyToSend.
C25_ReadyAfterOnline ==
    /\ [](variant = "p2p" =>
            /\ HasReady(sent) =>
                  /\ iresult.ok
                  /\ endpoint \in {"accepting", "closed"}
                  /\ spc \in {"spawn", "returned"}
            /\ Failing => ~HasReady(sent))
    /\ [][(variant = "p2p" /\ spc = "online" /\ spc' \notin {"online", "ready"}) => spc' = "err"]_vars
    /\ [][(variant = "p2p" /\ Failing) => Failing']_vars

\* C25 witness: import succeeded and the router was spawned, the receiver of
\* the channel is alive, and the session failed at the online wait: the
\* Error follows the Importing events and there is no ReadyToSend
C25_Witness ==
    /\ variant = "p2p"
    /\ spc = "failed"
    /\ iresult.ok
    /\ endpoint = "closed"
    /\ ~rxClosed
    /\ sent[Len(sent)].type = "Error"
    /\ ~HasReady(sent)

\* C26: in the P2P variant, while the returned SendHandle has not been
\* dropped the router is accepting, and every step that shuts the router of
\* a returned handle down happens after the drop.
C26_RouterOutlivesHandle ==
    /\ []((variant = "p2p" /\ handle /\ ~dropped) => endpoint = "accepting")
    /\ [][(variant = "p2p" /\ handle /\ endpoint = "accepting" /\ endpoint' # "accepting")
            => dropped]_vars

\* C26 witness: the user interface has taken ReadyToSend, the handle is
\* alive, the background task waits on the shutdown channel and the router
\* is accepting
C26_Witness ==
    /\ variant = "p2p"
    /\ handle
    /\ ~dropped
    /\ shutdown = "armed"
    /\ endpoint = "accepting"
    /\ Len(delivered) > 0
    /\ delivered[Len(delivered)].type = "ReadyToSend"

-----------------------------------------------------------------------------
(* Claims about the HTTP send session (SpecSession) *)

\* the path handed to the session is a directory of the sender's tree
PathIsDirectory == PathExists(ipath) /\ ipath \notin {f.path : f \in srcFiles}

\* C27: an HTTP send session started on a directory binds no listener, opens
\* no tunnel and emits no ReadyToSend, however many regular files the
\* directory holds.
C27_HttpRejectsDirectories ==
    (variant = "http" /\ PathIsDirectory) =>
        /\ server = "none"
        /\ tunnel = "none"
        /\ ~HasReady(sent)

\* C27 witness: an HTTP session started on the directory d, which holds the
\* one file d/x, returned its handle with the server up and the tunnel open
C27_Witness ==
    /\ variant = "http"
    /\ ipath = DirD
    /\ srcFiles = {FileX}
    /\ spc = "returned"
    /\ server = "serving"
    /\ tunnel = "open"
    /\ HasReady(sent)

-----------------------------------------------------------------------------
(* Claims about the blobs the download handler serves (SpecDownload) *)

\* the store as import left it: the staged file and the Collection blob
StoreOfSession == StagedBlob \in hdb /\ CollectionBlob \in hdb

\* C28: with the store holding what the session's import stored, a request
\* for a well-formed id that is not the id of the staged file is answered
\* with 404.
C28_OnlyStagedFileServed ==
    (Answered /\ StoreOfSession /\ WellFormed(hreq) /\ StagedBlob \notin Named(hreq)) =>
        hresp.status = 404

\* C28 witness: the id of the Collection blob was requested and the handler
\* answered 200 with the bytes of the Collection blob under the file's name
C28_Witness ==
    /\ Answered
    /\ StoreOfSession
    /\ hreq = <<"1", "1">>
    /\ hresp.status = 200
    /\ hresp.bytes = CollectionBlob.bytes
    /\ hresp.disposition = Disposition(hname)

-----------------------------------------------------------------------------
(* Claims about the order of a receive session's events (SpecReceive) *)

\* the phase a status event belongs to; Error belongs to none
PhaseOf(ev) ==
    CASE ev.type = "Connecting" -> 1
      [] ev.type = "Connected" -> 2
      [] ev.type = "Downloading" -> 3
      [] ev.type = "Exporting" -> 4
      [] ev.type = "Done" -> 5
      [] OTHER -> 0

CountOf(events, type) == Cardinality({k \in 1..Len(events) : events[k].type = type})

\* the positions of receive_logic between the connection and the end of the fetch
Fetching == rpc \in {"connect", "sizes", "connected", "get"}

\* C30: among the events of a receive session whose ticket parsed,
\* Connecting is at the first position and nowhere else, there is at most
\* one Connected, every Downloading has the one Connected before it, and
\* Connecting, Connected, Downloading, Exporting, Done come in this order of
\* phases; the session connects to the sender, and emits Connected and
\* Downloading, only with content missing locally.
C30_ReceiveEventOrder ==
    /\ [](GoodTicket =>
            /\ \A k \in 1..Len(rsent) :
                  /\ (k = 1 /\ rsent[k].type # "Error") => rsent[k].type = "Connecting"
                  /\ rsent[k].type = "Connecting" => k = 1
                  /\ rsent[k].type = "Downloading" =>
                        \E j \in 1..(k - 1) : rsent[j].type = "Connected"
                  /\ \A j \in 1..(k - 1) :
                        (PhaseOf(rsent[j]) # 0 /\ PhaseOf(rsent[k]) # 0) =>
                            PhaseOf(rsent[j]) <= PhaseOf(rsent[k])
            /\ CountOf(rsent, "Connected") <= 1
            /\ rpc = "get" => CountOf(rsent, "Connected") = 1
            /\ Fetching => rlocal # "complete")
    /\ [][(GoodTicket /\ Len(rsent') > Len(rsent)
            /\ rsent'[Len(rsent')].type \in {"Connected", "Downloading"})
            => (Fetching /\ rlocal # "complete")]_vars

\* C30 witness: a session that found content missing delivered Connecting,
\* Connected, Downloading, Exporting and Done
C30_Witness ==
    /\ GoodTicket
    /\ rpc = "finished"
    /\ rlogic = "ok"
    /\ Len(rsent) >= 5
    /\ rsent[1].type = "Connecting"
    /\ rsent[2].type = "Connected"
    /\ rsent[3].type = "Downloading"
    /\ rsent[4].type = "Exporting"
    /\ rsent[Len(rsent)].type = "Done"

-----------------------------------------------------------------------------
(* Several receive sessions on one runtime: every click on Get spawns a     *)
(* receive_file task (main.rs), all tasks share the working directory       *)

\* bytes the fetch of a ticket's content stores in the receive directory
MaxFetch == 2

\* the entry names of the collection a ticket's hash stands for
TicketContent(h) == IF h = "h1" THEN <<"a">> ELSE <<"b", "a">>

\* format!(".p2p-client-recv-{}", ticket.hash().to_hex()): the directory is
\* named by the hash alone
dir_name(h) == h

DirOf(t) == dir_name(tasks[t].hash)

TaskFrame ==
    UNCHANGED <<codecVars, treeVars, sessionVars, importVars, exportVars, recvVars,
                lifeVars, dlVars, extVars, temp_tag>>

\* the store of task t is dropped or shut down
CloseStore(dirs, t) == [dirs EXCEPT ![DirOf(t)].open = @ \ {t}]

\* rt.spawn(receive_file(ticket, tx)); the ticket parses and the working
\* directory is known, so data_dir is named
TaskStart(t) ==
    /\ tasks[t].pc = "idle"
    /\ \E h \in ContentHashes :
          tasks' = [tasks EXCEPT ![t] =
                      [pc |-> "load", hash |-> h, fetched |-> 0, i |-> 0,
                       result |-> "none",
                       after |-> {u \in Tasks : tasks[u].pc = "done"}]]
    /\ UNCHANGED <<data_dirs, targets>>
    /\ TaskFrame

\* receive_logic: FsStore::load(data_dir).await? opens the store in the
\* directory, creating it if it is not there
TaskLoadStore(t) ==
    /\ tasks[t].pc = "load"
    /\ \/ /\ data_dirs' = [data_dirs EXCEPT ![DirOf(t)].exists = TRUE,
                                            ![DirOf(t)].open = @ \cup {t}]
          /\ tasks' = [tasks EXCEPT ![t].pc = "local"]
       \/ /\ \E made \in {data_dirs[DirOf(t)].exists, TRUE} :
                data_dirs' = [data_dirs EXCEPT ![DirOf(t)].exists = made]
          /\ tasks' = [tasks EXCEPT ![t].pc = "cleanup", ![t].result = "err"]
    /\ UNCHANGED targets
    /\ TaskFrame

\* receive_logic: db.remote().local(..).await?; if !local.is_complete()
TaskLocal(t) ==
    /\ tasks[t].pc = "local"
    /\ \/ /\ tasks' = [tasks EXCEPT ![t].pc =
                         IF data_dirs[DirOf(t)].bytes = MaxFetch THEN "export" ELSE "fetch",
                                    ![t].i = 1]
          /\ data_dirs' = data_dirs
       \/ /\ tasks' = [tasks EXCEPT ![t].pc = "cleanup", ![t].result = "err"]
          /\ data_dirs' = CloseStore(data_dirs, t)
    /\ UNCHANGED targets
    /\ TaskFrame

\* receive_logic: the connection and the fetch stream; each item stores
\* fetched bytes in the directory, an Error item or a failed send returns Err
TaskFetch(t) ==
    /\ tasks[t].pc = "fetch"
    /\ \/ /\ data_dirs[DirOf(t)].exists
          /\ data_dirs[DirOf(t)].bytes < MaxFetch
          /\ data_dirs' = [data_dirs EXCEPT ![DirOf(t)].bytes = @ + 1]
          /\ tasks' = [tasks EXCEPT ![t].fetched = @ + 1]
       \/ /\ data_dirs[DirOf(t)].bytes = MaxFetch
          /\ data_dirs' = data_dirs
          /\ tasks' = [tasks EXCEPT ![t].pc = "export"]
       \/ /\ data_dirs' = CloseStore(data_dirs, t)
          /\ tasks' = [tasks EXCEPT ![t].pc = "cleanup", ![t].result = "err"]
    /\ UNCHANGED targets
    /\ TaskFrame

\* export: get_export_path, then if target.exists() { bail!(..) }
TaskExportCheck(t) ==
    /\ tasks[t].pc = "export"
    /\ LET name == TicketContent(tasks[t].hash)[tasks[t].i]
       IN  IF targets[name] # <<>>
           THEN /\ tasks' = [tasks EXCEPT ![t].pc = "cleanup", ![t].result = "exists"]
                /\ data_dirs' = CloseStore(data_dirs, t)
           ELSE /\ tasks' = [tasks EXCEPT ![t].pc = "copy"]
                /\ data_dirs' = data_dirs
    /\ UNCHANGED targets
    /\ TaskFrame

\* export: create_dir_all(parent).await?, then db.export_with_opts(..)
\* writes the target; the loop goes on or export returns
TaskExportCopy(t) ==
    /\ tasks[t].pc = "copy"
    /\ LET names == TicketContent(tasks[t].hash)
           name == names[tasks[t].i]
       IN  /\ targets' = [targets EXCEPT ![name] = Append(@, t)]
           /\ tasks' = [tasks EXCEPT ![t].pc = IF tasks[t].i = Len(names)
                                                THEN "shutdown" ELSE "export",
                                      ![t].i = @ + 1]
    /\ UNCHANGED data_dirs
    /\ TaskFrame

\* receive_logic: db.shutdown().await?, Done, Ok(())
TaskShutdown(t) ==
    /\ tasks[t].pc = "shutdown"
    /\ data_dirs' = CloseStore(data_dirs, t)
    /\ tasks' = [tasks EXCEPT ![t].pc = "cleanup", ![t].result = "ok"]
    /\ UNCHANGED targets
    /\ TaskFrame

\* receive_file: tokio::fs::remove_dir_all(&data_dir).await, its error only
\* printed; then the Error of a failed session is sent and the task ends
TaskCleanup(t) ==
    /\ tasks[t].pc = "cleanup"
    /\ \/ data_dirs' = [data_dirs EXCEPT ![DirOf(t)].exists = FALSE,
                                         ![DirOf(t)].bytes = 0]
       \/ data_dirs' = data_dirs
    /\ tasks' = [tasks EXCEPT ![t].pc = "done"]
    /\ UNCHANGED targets
    /\ TaskFrame

InitReceiveTasks ==
    /\ CodecIdle
    /\ SenderIdle
    /\ ExportIdle
    /\ RecvIdle
    /\ LifeIdle
    /\ DlIdle
    /\ TasksIdle
    /\ ExtIdle

NextReceiveTasks ==
    \E t \in Tasks :
        \/ TaskStart(t)
        \/ TaskLoadStore(t)
        \/ TaskLocal(t)
        \/ TaskFetch(t)
        \/ TaskExportCheck(t)
        \/ TaskExportCopy(t)
        \/ TaskShutdown(t)
        \/ TaskCleanup(t)

SpecReceiveTasks == InitReceiveTasks /\ [][NextReceiveTasks]_vars

-----------------------------------------------------------------------------
(* Claims about concurrent and repeated receive sessions (SpecReceiveTasks) *)

\* C22: no receive directory has the stores of two live sessions open on
\* it, and no step removes a directory on which the store of a live session
\* is open.
C22_PrivateStoreDirs ==
    /\ [](\A h \in ContentHashes : Cardinality(data_dirs[h].open) <= 1)
    /\ [][\A h \in ContentHashes :
            (data_dirs[h].exists /\ ~data_dirs'[h].exists) => data_dirs[h].open = {}]_vars

\* C22 witness: two sessions started with the same ticket have their stores
\* open on the same directory while both fetch
C22_Witness ==
    /\ tasks[1].hash = tasks[2].hash
    /\ tasks[1].pc = "fetch"
    /\ tasks[2].pc = "fetch"
    /\ data_dirs[DirOf(1)].open = {1, 2}

\* C24: no export target has been written by more than one export.
C24_NoDoubleWrite == \A n \in TargetNames : Len(targets[n]) <= 1

\* C24 witness: two sessions with different tickets, whose collections both
\* hold the name a, have both written the target a
C24_Witness ==
    /\ tasks[1].hash # tasks[2].hash
    /\ Len(targets["a"]) = 2
    /\ targets["a"][1] # targets["a"][2]
    /\ \A t \in Tasks : tasks[t].result # "exists"

\* an earlier session s of the ticket of t fetched bytes and failed
FailedEarlier(s, t) ==
    /\ s \in tasks[t].after
    /\ tasks[s].hash = tasks[t].hash
    /\ tasks[s].result = "err"
    /\ tasks[s].fetched > 0

\* C29: a receive session started after a session of the same ticket failed
\* part-way through its download finds, when it has loaded its store, the
\* bytes the earlier session fetched.
C29_ReusesProgress ==
    \A s, t \in Tasks :
        (FailedEarlier(s, t) /\ tasks[t].pc = "local") =>
            data_dirs[DirOf(t)].bytes >= tasks[s].fetched

\* C29 witness: the second session of a ticket has loaded its store after
\* the first one fetched a byte, failed and removed the directory; the
\* store is empty
C29_Witness ==
    /\ FailedEarlier(1, 2)
    /\ tasks[2].pc = "local"
    /\ DirOf(1) = DirOf(2)
    /\ data_dirs[DirOf(2)].bytes = 0

-----------------------------------------------------------------------------
(* Claims about the failures of a receive session (SpecReceive) *)

\* the positions of receive_file after receive_logic returned Err
Aborted == rpc \in {"return_err", "cleanup", "report"}

NothingExported ==
    /\ epc = "idle"
    /\ rfiles = rinit.files
    /\ rdirs = rinit.dirs
    /\ CountOf(rsent, "Exporting") = 0
    /\ CountOf(rsent, "Done") = 0

\* C32: once the fetch stream of a receive session has yielded an Error
\* item the session is aborted: the Collection is not loaded, the exporter
\* is not invoked, nothing is written to the output root and no Exporting or
\* Done is emitted; the only event that follows is the Error, emitted after
\* the removal of the temporary directory was attempted, and the finished
\* session has emitted exactly that one Error.
C32_FetchErrorAborts ==
    /\ [](ritem = "Error" =>
            /\ NothingExported
            /\ Aborted \/ rpc \in {"finished", "cancelled"}
            /\ rpc \in {"report", "finished"} => removals = 1
            /\ (rpc = "finished" /\ ~erxClosed) =>
                  /\ Cardinality(ErrorsIn(rsent)) = 1
                  /\ rsent[Len(rsent)] = ReceiveErrorOf("receive_logic"))
    /\ [][(ritem = "Error" /\ rsent' # rsent) =>
            /\ rsent' = Append(rsent, ReceiveErrorOf("receive_logic"))
            /\ removals = 1]_vars

\* C32 witness: a session that had received a Downloading event got an
\* Error item with the receiver alive; it ended with the Error after the
\* cleanup, with nothing exported
C32_Witness ==
    /\ ritem = "Error"
    /\ rpc = "finished"
    /\ ~erxClosed
    /\ NothingExported
    /\ removals = 1
    /\ Len(rsent) = 4
    /\ rsent[3].type = "Downloading"
    /\ rsent[4] = ReceiveErrorOf("receive_logic")

\* C33: the Collection is loaded and the exporter is invoked only with the
\* content fully local.
C33_ExportOnlyWhenComplete ==
    (rpc \in {"collection", "export"} \/ epc # "idle") =>
        /\ rlocal = "complete"
        /\ ritem \in {"none", "Done"}

\* C33 witness: the fetch stream ended without Done or Error, the content
\* is partly local, and the exporter was invoked and has written a file
C33_Witness ==
    /\ ritem = "End"
    /\ rlocal = "part"
    /\ rpc = "export"
    /\ epc \notin {"idle", "start"}
    /\ exportStarted # {}
    /\ CountOf(rsent, "Connected") = 1

\* C37: the result of removing the temporary receive directory is not
\* reported and does not change the outcome: a session whose receive_logic
\* returned Ok emits no Error, also when the directory is still there after
\* the removal; every Error of a session whose receive_logic returned Err
\* carries the error of receive_logic; and the removal step leaves the
\* outcome as it was.
C37_CleanupNeverEscalates ==
    /\ []((GoodTicket /\ rlogic = "ok") => ErrorsIn(rsent) = {})
    /\ [](GoodTicket => \A k \in ErrorsIn(rsent) :
                           rsent[k].cause \in {"setup", "receive_logic"})
    /\ []((rpc = "finished" /\ rlogic = "err" /\ ~erxClosed) =>
             rsent[Len(rsent)] = ReceiveErrorOf("receive_logic"))
    /\ [][rpc = "cleanup" => (rlogic' = rlogic /\ rsent' = rsent)]_vars

\* C37 witness: receive_logic failed after the store was loaded, the
\* removal was attempted and failed (the directory is still there) and the
\* Error of receive_logic was delivered
C37_Witness ==
    /\ GoodTicket
    /\ rpc = "finished"
    /\ rlogic = "err"
    /\ removals = 1
    /\ tmpDir
    /\ rstore = "dropped"
    /\ rsent[Len(rsent)] = ReceiveErrorOf("receive_logic")

-----------------------------------------------------------------------------
(* Claims about the outcome of a send session (SpecSession) *)

\* C34: for both send entry points, the call returns a SendHandle exactly
\* when it emitted ReadyToSend: a returned handle follows a ReadyToSend and
\* no Error; a call that returns an error emitted no ReadyToSend, returned
\* no handle and attempted one Error (delivered once when the receiver is
\* alive, never twice); no Error is emitted before the call has failed; and
\* once ReadyToSend has been emitted the call does not fail any more.
C34_HandleIffReady ==
    /\ [](handle => (HasReady(sent) /\ ErrorsIn(sent) = {}))
    /\ [](HasReady(sent) => spc \in {"spawn", "returned"})
    /\ [](spc \in {"err", "failed"} => (~handle /\ ~HasReady(sent)))
    /\ [](spc # "failed" => ErrorsIn(sent) = {})
    /\ [](spc = "failed" =>
            /\ Cardinality(ErrorsIn(sent)) <= 1
            /\ ~rxClosed => Cardinality(ErrorsIn(sent)) = 1)
    /\ [][HasReady(sent) => (spc' \in {"spawn", "returned"} /\ ErrorsIn(sent') = {})]_vars
    /\ [][(spc = "spawn" /\ spc' # spc) => (spc' = "returned" /\ handle')]_vars

\* C34 witness: an HTTP session whose ReadyToSend the consumer has taken
\* returned its handle, and the handle is still held
C34_Witness ==
    /\ variant = "http"
    /\ spc = "returned"
    /\ handle
    /\ ~dropped
    /\ HasReady(delivered)
    /\ server = "serving"
    /\ tunnel = "open"

-----------------------------------------------------------------------------
(* Claims about an import whose walk fails at the root (SpecImport) *)

\* the directory handed to import exists and its own listing fails
RootWalkFails == ipath \in SrcDirs /\ ipath \in unreadable

\* C36: when the walk of the root entry itself fails, import does not
\* return Ok (so never an empty Collection) and the session does not reach
\* ReadyToSend.
C36_RootWalkFailureIsAnError ==
    RootWalkFails =>
        /\ ~iresult.ok
        /\ spc \notin {"store_collection", "router", "online", "ready", "spawn", "returned"}
        /\ ~HasReady(sent)

\* C36 witness: the listing of the root directory failed, import returned
\* Ok with an empty Collection, and the session announced ReadyToSend and
\* returned its handle
C36_Witness ==
    /\ RootWalkFails
    /\ iresult.ok
    /\ iresult.val.collection = <<>>
    /\ spc = "returned"
    /\ handle
    /\ HasReady(sent)
    /\ ErrorsIn(sent) = {}

-----------------------------------------------------------------------------
(* Claims about the order of the release steps (SpecSession) *)

\* the background task of the session can still serve from the store
StillServing == endpoint = "accepting" \/ server = "serving"

\* C38: the release of a SendHandle is ordered: the thread that removes the
\* staging directory runs only when the listener or server task has
\* stopped, so the directory is never removed while the task can still
\* serve from the store in it.
C38_ReleaseIsOrdered == (dropped /\ rmThread = "done") => ~StillServing

\* C38 witness: the handle of an HTTP session was dropped and the staging
\* directory is gone while the server is still serving and the tunnel is
\* still open
C38_Witness ==
    /\ variant = "http"
    /\ dropped
    /\ shutdown = "signalled"
    /\ rmThread = "done"
    /\ ~stagingDir
    /\ server = "serving"
    /\ tunnel = "open"

-----------------------------------------------------------------------------
(* Claims about the temporary tag of the imported Collection (SpecSession) *)

\* C40: in both variants the temporary tag import returned is held from
\* the ReadyToSend of the session until its SendHandle is dropped.
C40_TagHeldWhileServing == (HasReady(sent) /\ ~dropped) => temp_tag = "held"

\* C40 witness: an HTTP session returned its handle, the handle is held,
\* the server is serving and the tunnel is open, and the temporary tag is
\* released
C40_Witness ==
    /\ variant = "http"
    /\ spc = "returned"
    /\ handle
    /\ ~dropped
    /\ server = "serving"
    /\ tunnel = "open"
    /\ temp_tag = "released"

-----------------------------------------------------------------------------
(* The window that started a send task: MyApp in main.rs *)

\* impl Drop for SendHandle, as part of the step that drops the handle
Dropping ==
    /\ dropped' = TRUE
    /\ shutdown' = "signalled"
    /\ closeTask' = IF tunnel = "open" THEN "spawned" ELSE closeTask
    /\ rmThread' = "spawned"

NoDrop == UNCHANGED <<dropped, shutdown, closeTask, rmThread>>

GuiFrame ==
    UNCHANGED <<codecVars, treeVars, exportVars, recvVars, dlVars, taskVars, importVars,
                sendsVars, sizeVars, temp_tag, variant, server, tunnel, capacity, spc,
                endpoint, stagingDir, store, sent, handle>>

\* the task a Send button spawned, after send_file / start_http_send has
\* returned: let _ = handle_tx.send(handle_result).await; a result that
\* cannot be sent is dropped, and a SendHandle in it with it
TaskSendHandle ==
    /\ hpc = "wait"
    /\ spc \in {"returned", "failed"}
    /\ hpc' = "sent"
    /\ IF send_handle_rx
       THEN /\ handle_chan' = Append(handle_chan, IF spc = "returned" THEN "Ok" ELSE "Err")
            /\ NoDrop
       ELSE /\ handle_chan' = handle_chan
            /\ IF spc = "returned" THEN Dropping ELSE NoDrop
    /\ UNCHANGED <<send_handle_rx, send_handle, active_sends, rxClosed, queue, delivered>>
    /\ GuiFrame

\* MyApp::handle_progress_updates, the part about sending, run once per
\* frame: one try_recv on the handle channel, then one try_recv on the
\* status channel; ReadyToSend moves the handle the window holds into
\* active_sends, Error and Done call reset_send_state
handle_progress_updates ==
    LET polled == send_handle_rx /\ handle_chan # <<>>
        sh1    == IF polled THEN Head(handle_chan) = "Ok" ELSE send_handle
        status == ~rxClosed /\ queue # <<>>
        ev     == Head(queue)
        reset  == status /\ ev.type \in {"Error", "Done"}
        ready  == status /\ ev.type = "ReadyToSend"
    IN  /\ polled \/ status
        /\ handle_chan' = IF polled THEN Tail(handle_chan) ELSE handle_chan
        /\ send_handle_rx' = (send_handle_rx /\ ~polled /\ ~reset)
        /\ send_handle' = (sh1 /\ ~reset /\ ~ready)
        /\ active_sends' = IF ready /\ sh1
                           THEN Append(active_sends, ev.ticket)
                           ELSE active_sends
        /\ rxClosed' = (rxClosed \/ reset \/ ready)
        /\ queue' = IF status THEN Tail(queue) ELSE queue
        /\ delivered' = IF status THEN Append(delivered, ev) ELSE delivered
        /\ IF reset /\ sh1 THEN Dropping ELSE NoDrop
        /\ hpc' = hpc
        /\ GuiFrame

\* MyApp::update, the button "Cancel sending" shown while send_handle is
\* Some: reset_send_state drops the handle and both receivers
CancelSending ==
    /\ send_handle
    /\ send_handle' = FALSE
    /\ send_handle_rx' = FALSE
    /\ rxClosed' = TRUE
    /\ Dropping
    /\ UNCHANGED <<handle_chan, active_sends, hpc, queue, delivered>>
    /\ GuiFrame

\* MyApp::update, the button "Stop" of a listed transfer: active_sends.retain
\* drops the entry and the SendHandle in it
StopTransfer ==
    /\ active_sends # <<>>
    /\ active_sends' = Tail(active_sends)
    /\ Dropping
    /\ UNCHANGED <<send_handle_rx, handle_chan, send_handle, hpc, rxClosed, queue, delivered>>
    /\ GuiFrame

\* the state the click handler of a Send button leaves behind
InitGui == InitSession

NextGui ==
    \/ SendConnecting
    \/ BindEndpoint
    \/ CreateDataDir
    \/ LoadStore
    \/ ImportWalk
    \/ ImportEmit
    \/ ImportStreamItem
    \/ ImportStoreCollection
    \/ SpawnRouter
    \/ AwaitOnline
    \/ HttpSingleFile
    \/ HttpSendConnecting
    \/ HttpBindListener
    \/ HttpSpawnServer
    \/ HttpOpenTunnel
    \/ SendReady
    \/ ReturnHandle
    \/ ReportError
    \/ TaskSendHandle
    \/ handle_progress_updates
    \/ CancelSending
    \/ StopTransfer
    \/ ShutdownTask
    \/ ServerTask
    \/ CloseTunnelTask
    \/ RemoveDirThread

SpecGui == InitGui /\ [][NextGui]_vars

\* C39: whatever the interleaving of the send task and the frames of the
\* window, there is no state in which the window has processed the
\* ReadyToSend of the session, holds the SendHandle that arrived later in
\* send_handle, and does not list the session in active_sends.
C39_ReadyRegisters ==
    ~(HasReady(delivered) /\ send_handle /\ active_sends = <<>>)

\* C39 witness: the window processed ReadyToSend in a frame in which the
\* handle channel was still empty, took the handle in a later frame, and
\* now holds it in send_handle with no receiver left and nothing listed
C39_Witness ==
    /\ HasReady(delivered)
    /\ spc = "returned"
    /\ hpc = "sent"
    /\ send_handle
    /\ ~send_handle_rx
    /\ rxClosed
    /\ active_sends = <<>>
    /\ ~dropped
    /\ StillServing

-----------------------------------------------------------------------------
(* Several send sessions of one process, each with its SendHandle *)

SendsFrame ==
    UNCHANGED <<codecVars, treeVars, sessionVars, importVars, exportVars, recvVars,
                lifeVars, dlVars, taskVars, temp_tag, guiVars, sizeVars>>

\* the values rand::random::<[u8; 8]>() gives; two draws of one process are
\* taken to differ
Suffixes == 1..MaxSends

\* send_internal / start_http_send_internal up to the store: the suffix is
\* drawn and data_dir is created under temp_dir()
SendsStart(s) ==
    /\ sends[s].pc = "idle"
    /\ \E v \in {"p2p", "http"}, x \in Suffixes :
          /\ \A t \in Sends : sends[t].dir # x
          /\ sends' = [sends EXCEPT ![s] = [@ EXCEPT !.pc = "starting", !.variant = v,
                                                     !.dir = x]]
          /\ temp_dirs' = temp_dirs \cup {x}
    /\ SendsFrame

\* the rest of the internal function: the task is spawned with the receiver
\* of a new oneshot channel, the tunnel is opened (HTTP) and Ok(SendHandle)
\* is returned, or an error is returned and the locals are dropped
SendsReturn(s) ==
    /\ sends[s].pc = "starting"
    /\ \/ sends' = [sends EXCEPT ![s] =
                      [@ EXCEPT !.pc = "returned", !.handle = "held", !.shutdown = "armed",
                                !.task = "serving",
                                !.tunnel = IF @ = "none" /\ sends[s].variant = "http"
                                           THEN "open" ELSE @]]
       \/ sends' = [sends EXCEPT ![s] = [@ EXCEPT !.pc = "failed"]]
    /\ UNCHANGED temp_dirs
    /\ SendsFrame

\* a drop that signals every session's task
SendsDrop_signals_all(s) ==
    /\ sends[s].handle = "held"
    /\ sends' = [t \in Sends |->
                   IF t = s
                   THEN [sends[t] EXCEPT !.handle = "dropped", !.shutdown = "signalled",
                                         !.closeTask = IF sends[s].tunnel = "open"
                                                       THEN "spawned" ELSE @,
                                         !.rmThread = "spawned"]
                   ELSE [sends[t] EXCEPT !.shutdown = IF @ = "armed" THEN "signalled" ELSE @]]
    /\ UNCHANGED temp_dirs
    /\ SendsFrame

\* impl Drop for SendHandle, for the handle of session s: its shutdown_tx is
\* used, its tunnel is handed to a task that closes it, and a thread that
\* removes its data_dir is spawned
SendsDrop(s) ==
    /\ sends[s].handle = "held"
    /\ sends' = [t \in Sends |->
                   IF t = s
                   THEN [sends[t] EXCEPT !.handle = "dropped", !.shutdown = "signalled",
                                         !.closeTask = IF sends[s].tunnel = "open"
                                                       THEN "spawned" ELSE @,
                                         !.rmThread = "spawned"]
                   ELSE sends[t]]
    /\ UNCHANGED temp_dirs
    /\ SendsFrame

\* the task of session s once its shutdown_rx has resolved: the router is
\* shut down, or axum::serve returns
SendsTaskStops(s) ==
    /\ sends[s].shutdown = "signalled"
    /\ sends[s].task = "serving"
    /\ sends' = [sends EXCEPT ![s] = [@ EXCEPT !.task = "stopped"]]
    /\ UNCHANGED temp_dirs
    /\ SendsFrame

\* the task the drop of session s spawned: let _ = tunnel.close().await
SendsCloseTunnel(s) ==
    /\ sends[s].closeTask = "spawned"
    /\ sends' = [sends EXCEPT ![s] = [@ EXCEPT !.closeTask = "done", !.tunnel = "closed"]]
    /\ UNCHANGED temp_dirs
    /\ SendsFrame

\* the thread the drop of session s spawned:
\* let _ = std::fs::remove_dir_all(data_dir)
SendsRemoveDir(s) ==
    /\ sends[s].rmThread = "spawned"
    /\ sends' = [sends EXCEPT ![s] = [@ EXCEPT !.rmThread = "done"]]
    /\ temp_dirs' \in {temp_dirs \ {sends[s].dir}, temp_dirs}
    /\ SendsFrame

InitSends ==
    /\ CodecIdle
    /\ SenderIdle
    /\ ExportIdle
    /\ RecvIdle
    /\ LifeIdle
    /\ DlIdle
    /\ TasksIdle
    /\ GuiIdle
    /\ SendsIdle
    /\ SizesIdle

NextSends ==
    \E s \in Sends :
        \/ SendsStart(s)
        \/ SendsReturn(s)
        \/ SendsDrop(s)
        \/ SendsTaskStops(s)
        \/ SendsCloseTunnel(s)
        \/ SendsRemoveDir(s)

SpecSends == InitSends /\ [][NextSends]_vars

\* the resources of session s are as its internal function left them
Untouched(s) ==
    /\ sends[s].shutdown = "armed"
    /\ sends[s].task = "serving"
    /\ sends[s].dir \in temp_dirs
    /\ sends[s].variant = "http" => sends[s].tunnel = "open"
    /\ sends[s].closeTask = "none"
    /\ sends[s].rmThread = "none"

\* C35: every send session that returned a SendHandle has a staging
\* directory no other session has and a shutdown channel of its own; as long
\* as its handle is held its task runs, its directory exists and its tunnel
\* is open, whatever happens to the handles of the other sessions; and the
\* step that drops the handle of one session changes nothing of any other.
C35_HandlesAreIndependent ==
    /\ [](\A s, t \in Sends :
            (s # t /\ sends[s].dir # 0) => sends[s].dir # sends[t].dir)
    /\ [](\A s \in Sends : sends[s].pc = "returned" <=> sends[s].handle # "none")
    /\ [](\A s \in Sends : sends[s].handle = "held" => Untouched(s))
    /\ [][\A s \in Sends :
            (sends[s].handle = "held" /\ sends'[s].handle = "dropped") =>
                \A t \in Sends \ {s} :
                    /\ sends'[t] = sends[t]
                    /\ (sends[t].dir \in temp_dirs) = (sends[t].dir \in temp_dirs')]_vars

\* C35 witness: two sessions returned their handles; the handle of the first
\* was dropped and its task has stopped, its tunnel is closed and its
\* directory is gone, while the handle of the second is held
C35_Witness ==
    /\ sends[1].handle = "dropped"
    /\ sends[1].variant = "http"
    /\ sends[1].task = "stopped"
    /\ sends[1].tunnel = "closed"
    /\ sends[1].dir \notin temp_dirs
    /\ sends[2].handle = "held"
    /\ sends[2].variant = "http"
    /\ Untouched(2)

-----------------------------------------------------------------------------
(* The totals receive_logic makes of the sizes a peer reports *)

\* bits of the unsigned integers of the model, standing for the 64 of u64
Bits == 2

\* longest list of sizes a peer reports
MaxSizes == 3

\* most Progress items of one fetch
MaxProgress == 2

Modulus == 2 ^ Bits

\* the sizes a peer can report: small ones and the largest u64
SizeValues == {0, 1, Modulus - 1}

SizesLists == UNION {[1..n -> SizeValues] : n \in 0..MaxSizes}

\* Iterator::skip(n)
skip(q, n) == IF Len(q) <= n THEN <<>> ELSE SubSeq(q, n + 1, Len(q))

\* usize::saturating_sub
saturating_sub(a, b) == IF a >= b THEN a - b ELSE 0

\* a + b on u64: with overflow checks the overflow is a panic, without them
\* the result wraps
add_u64(a, b, build) ==
    IF a + b < Modulus THEN Ok(a + b)
    ELSE IF build = "debug" THEN Err("panic")
    ELSE Ok((a + b) % Modulus)

\* Iterator::sum::<u64>(): the elements are added one by one with +
RECURSIVE sum_u64(_, _, _)
sum_u64(q, acc, build) ==
    IF Len(q) = 0 THEN Ok(acc)
    ELSE LET next == add_u64(acc, q[1], build)
         IN  IF next.ok THEN sum_u64(Tail(q), next.val, build) ELSE next

SizesFrame ==
    UNCHANGED <<codecVars, treeVars, sessionVars, importVars, exportVars, recvVars,
                lifeVars, dlVars, taskVars, temp_tag, guiVars, sendsVars>>

\* receive_logic: total_size, payload_size and total_files are computed and
\* Connected is sent; a panic of a sum ends the task
SizesConnected ==
    /\ ppc = "sizes"
    /\ LET total_size_  == sum_u64(psizes, 0, pbuild)
           payload_size_ == sum_u64(skip(psizes, 1), 0, pbuild)
           total_files_  == saturating_sub(Len(psizes), 1)
       IN  IF total_size_.ok /\ payload_size_.ok
           THEN /\ pevents' = <<ReceiveConnected(total_files_, payload_size_.val)>>
                /\ ppc' = "fetch"
           ELSE /\ pevents' = pevents
                /\ ppc' = "panicked"
    /\ UNCHANGED <<psizes, pbuild, plocal, poffset>>
    /\ SizesFrame

\* receive_logic, the arm GetProgressItem::Progress(offset): Downloading is
\* sent with downloaded = local.local_bytes() + offset and total = total_size
SizesProgress ==
    /\ ppc = "fetch"
    /\ Len(pevents) <= MaxProgress
    /\ \E offset \in 0..(Modulus - 1) :
          LET downloaded == add_u64(plocal, offset, pbuild)
              total_size_ == sum_u64(psizes, 0, pbuild)
          IN  /\ poffset' = offset
              /\ IF downloaded.ok
                 THEN /\ pevents' = Append(pevents,
                                           ReceiveDownloading(downloaded.val, total_size_.val))
                      /\ ppc' = ppc
                 ELSE /\ pevents' = pevents
                      /\ ppc' = "panicked"
    /\ UNCHANGED <<psizes, pbuild, plocal>>
    /\ SizesFrame

\* receive_logic, the arm GetProgressItem::Done: break
SizesDone ==
    /\ ppc = "fetch"
    /\ ppc' = "done"
    /\ UNCHANGED <<psizes, pbuild, plocal, poffset, pevents>>
    /\ SizesFrame

\* the bytes of the content that are not local
missing == SumSeq(psizes) - plocal

InitSizes ==
    /\ CodecIdle
    /\ SenderIdle
    /\ ExportIdle
    /\ RecvIdle
    /\ LifeIdle
    /\ DlIdle
    /\ TasksIdle
    /\ GuiIdle
    /\ SendsIdle
    /\ psizes \in SizesLists
    /\ pbuild \in {"debug", "release"}
    /\ plocal \in {0, 1}
    /\ plocal <= SumSeq(psizes)
    /\ poffset = 0
    /\ ppc = "sizes"
    /\ pevents = <<>>

NextSizes == SizesConnected \/ SizesProgress \/ SizesDone

SpecSizes == InitSizes /\ [][NextSizes]_vars

\* C31: Connected reports total_files = the length of the list of sizes
\* minus one (0 for the empty list) and total_size = the sum of the sizes
\* but the first; every Downloading event carries one and the same total
\* and downloaded = the local bytes plus the offset of its Progress item,
\* and downloaded <= total whenever that offset is at most the number of
\* missing bytes.
C31_Totals ==
    \A k \in 1..Len(pevents) :
        LET ev == pevents[k]
        IN  /\ ev.type = "Connected" =>
                  /\ ev.total_files = (IF Len(psizes) = 0 THEN 0 ELSE Len(psizes) - 1)
                  /\ ev.total_size = SumSeq(skip(psizes, 1))
            /\ ev.type = "Downloading" =>
                  /\ \A j \in 1..Len(pevents) :
                        pevents[j].type = "Downloading" => pevents[j].total = ev.total
                  /\ k = Len(pevents) =>
                        /\ ev.downloaded = plocal + poffset
                        /\ poffset <= missing => ev.downloaded <= ev.total

\* C31 witness: a release build got three sizes whose sum does not fit the
\* integer; Connected was sent with a total that is not the sum of the
\* sizes but the first, and a Downloading event followed
C31_Witness ==
    /\ pbuild = "release"
    /\ Len(psizes) = 3
    /\ SumSeq(skip(psizes, 1)) >= Modulus
    /\ Len(pevents) = 2
    /\ pevents[1].type = "Connected"
    /\ pevents[1].total_size # SumSeq(skip(psizes, 1))
    /\ pevents[2].type = "Downloading"

====
